---- MODULE Spec2Model ----
(***************************************************************************)
(* Serial session engine of the VEET manager: SerialManager and            *)
(* SerialConnection (SerialManager.ts) together with the connection part   *)
(* of MainWindow (MainWindow.ts).                                          *)
(*                                                                         *)
(* One step of the model is one turn of the JavaScript event loop: a       *)
(* timer callback, a transport event or an IPC call, together with every   *)
(* promise continuation (microtask) it makes runnable.                     *)
(***************************************************************************)
EXTENDS Integers, Sequences, FiniteSets, TLC

\* ------------------------------------------------------------------ bounds
MaxTx == 4          \* writeWithResponse calls over a run
MaxConn == 2        \* SerialConnection objects created over a run
MaxStream == 4      \* bytes the transport delivers to the decoder over a run
MaxPollTx == 1      \* further writeWithResponse calls the pollers may make

MaxRestartTx == 1   \* and those of the pollers of one more session
MaxDriveCalls == 1  \* findDrive calls of the retry interval at a time
Txs == 1..(MaxTx + MaxPollTx + MaxRestartTx)
Conns == 1..MaxConn
\* PollingHelper objects: startPolls builds two for each connection made
Helpers == 1..(MaxConn + MaxConn)
NoHelper == 0
\* the callers of runCommand: none of the pollers, a PollingHelper, the sensor
\* loop
NoPoller == 0
SensorLoop == MaxConn + MaxConn + 1

\* --------------------------------------------------------- program constants
NoConn == 0                     \* SerialManager.connection_ = null
UnconnectedPort == "NONE"
Null == "null"                  \* a null datastore value
\* a queue built with two slots: new Queue(2, 0)
MutTwoSlots == 1 + 1
QueueMaxConcurrent == 1         \* new Queue(1, 0)
VEET_VENDOR_ID == "04d8"
END_OF_TRANSMISSION_DELIMITER == 4      \* Buffer.from([0x04])
\* a decoder set up with includeDelimiter: true
MutIncludeDelimiter == TRUE
IncludeDelimiter == FALSE               \* includeDelimiter: false
VEET_PRODUCT_ID == "0001"

BATTERY_FAST_POLL_PERIOD == 3000
CLOCK_FAST_POLL_PERIOD == 3000
BATTERY_SLOW_POLL_PERIOD == 30000
CLOCK_SLOW_POLL_PERIOD == 60000
IMU_POLL_COMMAND == "S0"
PHO_POLL_COMMAND == "S1"
TOF_POLL_COMMAND == "S2"
ALS_POLL_COMMAND == "S3"
\* TAB_NAMES
TOF == "TOF"
PHO == "PHO"
IMU == "IMU"
ALS == "ALS"
CONFIG == "Config"
\* what setCurrentTab may have left in currentTab_ when the sensor loop reads it
Tabs == {Null, CONFIG, TOF, PHO, IMU, ALS}
\* the host's clock in seconds when pollClock reads it
HostEpoch == 9

\* WriteResponseCode
UNKNOWN == "UNKNOWN"
PORT_NOT_OPEN == "PORT_NOT_OPEN"
RESPONSE_TIMED_OUT == "RESPONSE_TIMED_OUT"
VALID_RESPONSE == "VALID_RESPONSE"
UNEXPECTED_ERROR == "UNEXPECTED_ERROR"

\* SerialConnectionStatus
NONE_FOUND == "NONE_FOUND"
CONNECTED == "CONNECTED"

\* ------------------------------------------------------------------ strings
\* A string is a sequence of one-character strings.
Whitespace == {" ", "\r", "\n", "\t"}

RECURSIVE TrimStart(_)
TrimStart(s) ==
  IF s # <<>> /\ Head(s) \in Whitespace THEN TrimStart(Tail(s)) ELSE s

RECURSIVE TrimEnd(_)
TrimEnd(s) ==
  IF s # <<>> /\ s[Len(s)] \in Whitespace
  THEN TrimEnd(SubSeq(s, 1, Len(s) - 1))
  ELSE s

\* String.prototype.trim
Trim(s) == TrimEnd(TrimStart(s))

\* String.prototype.startsWith
StartsWith(s, p) == Len(s) >= Len(p) /\ SubSeq(s, 1, Len(p)) = p

BuildPrefix == <<"B", "u", "i", "l", "d", ":">>
ErrPrefix == <<"#", "E", "r", "r">>

\* String.prototype.slice(start, end) with 0 <= start <= end
Slice(s, start, end) ==
  SubSeq(s, start + 1, IF end < Len(s) THEN end ELSE Len(s))

\* String.prototype.split(separator): the pieces between the separators
RECURSIVE Split(_, _)
Split(s, separator) ==
  LET at == {i \in 1..Len(s) : s[i] = separator}
  IN IF at = {} THEN <<s>>
     ELSE LET i == CHOOSE x \in at : \A y \in at : x <= y
          IN <<SubSeq(s, 1, i - 1)>> \o Split(SubSeq(s, i + 1, Len(s)), separator)

\* a string or null used as a condition
Truthy(v) == v # Null /\ v # <<>>

\* ------------------------------------------------------------------ numbers
\* A JavaScript number is NaN or a fraction num/den with den > 0.
NaN == [kind |-> "NaN", num |-> 0, den |-> 1]
Num(n) == [kind |-> "number", num |-> n, den |-> 1]
Frac(n, d) == [kind |-> "number", num |-> n, den |-> d]
\* a datastore field of number type that holds null
NullNumber == [kind |-> "null", num |-> 0, den |-> 1]

\* a < b and a > b: false when either side is NaN
Less(a, b) ==
  a.kind = "number" /\ b.kind = "number" /\ a.num * b.den < b.num * a.den
Greater(a, b) == Less(b, a)

\* Math.max and Math.min: NaN when either argument is
MathMax(a, b) ==
  IF a.kind = "NaN" \/ b.kind = "NaN" THEN NaN ELSE IF Less(a, b) THEN b ELSE a
MathMin(a, b) ==
  IF a.kind = "NaN" \/ b.kind = "NaN" THEN NaN ELSE IF Less(b, a) THEN b ELSE a

Digits == <<"0", "1", "2", "3", "4", "5", "6", "7", "8", "9">>
IsDigit(ch) == \E d \in 1..Len(Digits) : Digits[d] = ch
DigitValue(ch) == (CHOOSE d \in 1..Len(Digits) : Digits[d] = ch) - 1

RECURSIVE ParseDigits(_, _)
ParseDigits(s, acc) ==
  IF s # <<>> /\ IsDigit(Head(s))
  THEN ParseDigits(Tail(s), Len(Digits) * acc + DigitValue(Head(s)))
  ELSE acc

\* parseInt(string) of a string without a hexadecimal prefix: leading
\* whitespace and a sign are skipped, the leading digits are read, NaN if
\* there is none
ParseInt(string) ==
  LET s == TrimStart(string)
      signed == s # <<>> /\ Head(s) \in {"-", "+"}
      body == IF signed THEN Tail(s) ELSE s
  IN IF body = <<>> \/ ~IsDigit(Head(body)) THEN NaN
     ELSE IF signed /\ Head(s) = "-" THEN Num(0 - ParseDigits(body, 0))
          ELSE Num(ParseDigits(body, 0))

\* a clamp that forgets the upper limit
MutClampNoMax(x, min, max) == MathMax(x, min)

\* utils.ts
clamp(x, min, max) == MathMax(MathMin(x, max), min)

\* invLerp for integers a < b: (x - a) / (b - a)
invLerp(a, b, x) ==
  IF x.kind = "NaN" THEN NaN
  ELSE Frac(x.num - a * x.den, x.den * (b - a))

invLerpClamped(a, b, x) == clamp(invLerp(a, b, x), Num(0), Num(1))

\* Commands of the wire protocol used here: the identity query and two polls.
VR == "VR"
UserCmds == <<"GB", "GT">>

\* the command of the t-th writeWithResponse call when a caller issues it
CmdOf(t) == UserCmds[(t % Len(UserCmds)) + 1]

\* The frames (terminator already stripped by the decoder) a device may send
\* in reply to a command.
DeviceReplies(cmd) ==
  IF cmd = VR
  THEN { <<" ">> \o BuildPrefix \o <<"7", "\r", "\n">>,
         <<"X">> \o BuildPrefix,
         <<"\r", "\n">> }
  ELSE IF cmd = "GB"
  THEN { <<"B", "a", "t", "t", "e", "r", "y", ":", " ", "4", "0", "5", "0",
           "m", "V", "\r", "\n">>,
         ErrPrefix }
  ELSE IF cmd = "GT"
  THEN { <<"T", "i", "m", "e", "(", "s", ")", ":", " ", "3", "\r", "\n">>,
         ErrPrefix }
  ELSE { <<cmd, ":", "1", "\r", "\n">>, ErrPrefix }

\* The port lists SerialPort.list() may report.
VeetA == [path |-> "COM1", vendorId |-> "04D8", productId |-> "0001"]
VeetB == [path |-> "COM2", vendorId |-> "04d8", productId |-> "0001"]
Other == [path |-> "COM3", vendorId |-> "2341", productId |-> "0001"]
Undefined == "undefined"        \* a field the port does not report
NoId == [path |-> "COM4", vendorId |-> Undefined, productId |-> Undefined]
WrongProduct == [path |-> "COM5", vendorId |-> "04d8", productId |-> "000A"]
PortLists ==
  { <<>>, <<Other, NoId>>, <<VeetA>>, <<Other, VeetA, WrongProduct, VeetB>> }

\* String.prototype.toLowerCase on the vendor ids above
ToLowerCase(s) == IF s = "04D8" THEN "04d8" ELSE s

VARIABLES
  conn,      \* SerialConnection objects and their SerialPort
  queue,     \* SerialConnection.queue_
  tx,        \* writeWithResponse invocations
  wire,      \* per transport: commands written and not yet answered
  mgr,       \* SerialManager
  ds,        \* the datastore
  mw,        \* MainWindow
  fv,        \* the findVeet invocation in progress
  nextTx, nextConn,
  hist,      \* history: notifications delivered, sessions that saw an 'error'
  dec,       \* a frame decoder (parser_) and the byte stream it is fed
  poll,      \* the PollingHelper objects, the sensor loop, the stream recorder
  inp        \* the argument a function under study is applied to

sessionVars ==
  <<conn, queue, tx, wire, mgr, ds, mw, fv, nextTx, nextConn, hist, poll>>
vars ==
  <<conn, queue, tx, wire, mgr, ds, mw, fv, nextTx, nextConn, hist, dec, poll,
    inp>>

\* --------------------------------------------------------------------- Init
NewConn ==
  [port |-> "none", path |-> UnconnectedPort, portRef |-> FALSE,
   parser |-> FALSE, listeners |-> {}, closeHooked |-> FALSE,
   mgrHooked |-> FALSE, closeCalled |-> FALSE, ready |-> "pending"]

NewQueue == [waiting |-> <<>>, running |-> {}]

\* class WriteResponse, and the bookkeeping of one writeWithResponse call
NewTx ==
  [conn |-> NoConn, cmd |-> VR, hs |-> FALSE, pc |-> "none",
   code |-> UNKNOWN, value |-> <<>>, timer |-> FALSE,
   rx |-> <<>>, late |-> FALSE, releases |-> 0, writes |-> 0,
   ret |-> "pending", by |-> NoPoller,
   cmdTakingTooLong |-> FALSE,   \* the slow-command timer is pending
   tooLong |-> FALSE]            \* the slow-command timer has fired

\* class PollingHelper (kind "none": not constructed yet); timeoutHandler_ is
\* the delay of the pending timer (0: none pending), outstanding the number
\* of callback promises not resolved yet, calls the number of callback
\* invocations, returned the delay the last resolved callback returned
NewHelper ==
  [kind |-> "none", isPolling_ |-> FALSE, timeoutHandler_ |-> 0,
   outstanding |-> 0, pc |-> "idle", calls |-> 0, returned |-> 0]

\* the pollers of MainWindow, the loop of startPollSensorThread and what
\* WriteIfRecording was called with
NewPoll ==
  [helpers |-> [h \in Helpers |-> NewHelper],
   batteryPoller_ |-> NoHelper, clockPoller_ |-> NoHelper, nextHelper |-> 1,
   sensorPollThreadRunning |-> FALSE,
   sensorThreads |-> 0,     \* the loops of startPollSensorThread started
   sensor |-> [pc |-> "off", tab |-> Null, timer |-> FALSE, str |-> Null],
   recorded |-> <<>>,
   ready |-> <<>>]     \* commands of pollers that returned, callers to resume

\* DataStore.ts initialData, the fields used here
initialData ==
  [connectionPort |-> Null, batteryPct |-> NullNumber,
   batteryMV |-> NullNumber, timeOnVeet |-> NullNumber,
   tofData |-> Null, phoData |-> Null, imuData |-> Null, alsData |-> Null,
   commandInFlight |-> FALSE, drivePath |-> Null]

\* no function is under study
NoInput == [pending |-> FALSE]

\* a decoder that has received nothing, and the bytes it is going to be fed
NewDecoder(stream) ==
  [stream |-> stream, consumed |-> <<>>, buffer |-> <<>>, frames |-> <<>>]

InitSession ==
  /\ conn = [c \in Conns |-> NewConn]
  /\ queue = [c \in Conns |-> NewQueue]
  /\ tx = [t \in Txs |-> NewTx]
  /\ wire = [c \in Conns |-> <<>>]
  /\ mgr = [connection_ |-> NoConn, connectedPort_ |-> UnconnectedPort]
  /\ ds = initialData
  /\ poll = NewPoll
  /\ mw = [isConnected_ |-> FALSE, connectionAttemptInFlight_ |-> FALSE,
           connectionRetry_ |-> TRUE, pc |-> "idle",
           driveRetry_ |-> FALSE,      \* driveRetry_ is not null
           driveRetryArmed |-> FALSE,  \* its interval has not been cleared
           findDrive |-> "idle",       \* the findDrive of startDriveSearch
           intervalListing |-> 0,      \* findDrive calls of the interval that
           intervalPost |-> 0]         \* await list(), and postDriveFind
  /\ fv = [pc |-> "idle", list |-> <<>>, idx |-> 0, c |-> NoConn,
           status |-> "none"]
  /\ nextTx = 1
  /\ nextConn = 1
  /\ hist = [emits |-> [c \in Conns |-> 0], mwRuns |-> [c \in Conns |-> 0],
             errored |-> {}, refused |-> "none", direct |-> "none",
             skipped |-> FALSE]

Init == InitSession /\ dec = NewDecoder(<<>>) /\ inp = NoInput

\* ---------------------------------------------------- the command queue
\* a queue that starts the newest waiting ticket first
RECURSIVE MutTryRunNewestFirst(_)
MutTryRunNewestFirst(q) ==
  IF q.waiting # <<>> /\ Cardinality(q.running) < QueueMaxConcurrent
  THEN MutTryRunNewestFirst(
         [waiting |-> SubSeq(q.waiting, 1, Len(q.waiting) - 1),
          running |-> q.running \cup {q.waiting[Len(q.waiting)]}])
  ELSE q

\* Queue.tryRun: start waiting tickets, oldest first, while a slot is free.
RECURSIVE TryRun(_)
TryRun(q) ==
  IF q.waiting # <<>> /\ Cardinality(q.running) < QueueMaxConcurrent
  THEN TryRun([waiting |-> Tail(q.waiting),
               running |-> q.running \cup {Head(q.waiting)}])
  ELSE q

\* Queue.wait(hash): enqueue behind the tickets already waiting
QueueWait(q, t) == TryRun([q EXCEPT !.waiting = Append(@, t)])

\* Queue.end(hash)
QueueEnd(q, t) == TryRun([q EXCEPT !.running = @ \ {t}])

\* ------------------------------------------- synchronous call chains
\* An operator on states is written CHOOSE r \in {e : s \in {state}} : TRUE,
\* which is e with s bound to the value of state.
\* The state as a record, for the code that runs within one step.
State ==
  [conn |-> conn, queue |-> queue, tx |-> tx, wire |-> wire, mgr |-> mgr,
   ds |-> ds, mw |-> mw, fv |-> fv, nextTx |-> nextTx, nextConn |-> nextConn,
   hist |-> hist, poll |-> poll]

Commit(s) ==
  /\ conn' = s.conn
  /\ queue' = s.queue
  /\ tx' = s.tx
  /\ wire' = s.wire
  /\ mgr' = s.mgr
  /\ ds' = s.ds
  /\ mw' = s.mw
  /\ fv' = s.fv
  /\ nextTx' = s.nextTx
  /\ nextConn' = s.nextConn
  /\ hist' = s.hist
  /\ poll' = s.poll
  /\ dec' = dec
  /\ inp' = inp

\* writeWithResponse, called for `by`, up to `await this.queue_.wait(mySymbol)`
WriteWithResponse(state, c, cmd, hs, by) ==
  CHOOSE r \in {
      LET t == s.nextTx
      IN [s EXCEPT !.tx[t] = [NewTx EXCEPT !.conn = c, !.cmd = cmd, !.hs = hs,
                                           !.pc = "queued", !.by = by],
                   !.queue[c] = QueueWait(@, t),
                   !.nextTx = t + 1]
    : s \in {state}} : TRUE

\* ---------------------------------------------------------------- pollers
\* MainWindow.runCommand and SerialManager.runCommand get as far as
\* writeWithResponse
CanRunCommand(s) == s.mw.isConnected_ /\ s.mgr.connection_ # NoConn

\* a stop that leaves the pending timer armed
MutStopLeavesTimer(helper) == [helper EXCEPT !.isPolling_ = FALSE]

\* PollingHelper.stop, on the record of a helper
PollingHelperStop(helper) ==
  [helper EXCEPT !.isPolling_ = FALSE, !.timeoutHandler_ = 0]

\* stopPolls, on the record of the pollers (disconnected, its only caller,
\* resets the datastore, batteryPct and batteryMV included)
StopPolls(p) ==
  [p EXCEPT !.helpers = [h \in Helpers |->
                           IF h \in {p.batteryPoller_, p.clockPoller_}
                           THEN PollingHelperStop(@[h]) ELSE @[h]],
            !.batteryPoller_ = NoHelper,
            !.clockPoller_ = NoHelper]

\* runPolling's then callback: the callback promise of h resolved with
\* nextDelay
PollingResolved(state, h, nextDelay) ==
  CHOOSE r \in {
      LET p == s.poll.helpers[h]
      IN [s EXCEPT !.poll.helpers[h] =
            [p EXCEPT !.outstanding = @ - 1,
                      !.pc = "idle",
                      !.returned = nextDelay,
                      !.timeoutHandler_ =
                         IF nextDelay > 0 /\ p.isPolling_ THEN nextDelay ELSE @]]
    : s \in {state}} : TRUE

\* the voltage pollBattery reads from a non-empty response
BatteryPrefix == <<"B", "a", "t", "t", "e", "r", "y", ":", " ">>
BatteryMillivolts(batteryString) ==
  IF StartsWith(batteryString, BatteryPrefix)
  THEN ParseInt(Slice(batteryString, Len(BatteryPrefix), Len(BatteryPrefix) + 4))
  ELSE LET splt == Split(batteryString, ",")
       IN IF Len(splt) = 3 THEN ParseInt(Trim(splt[3])) ELSE Num(0)

\* pollBattery of helper h resumed with runCommand's result
PollBatteryResumed(state, h, batteryString) ==
  CHOOSE r \in {
      IF Truthy(batteryString)
      THEN CHOOSE q \in {
               IF Less(mv, Num(100)) \/ Greater(mv, Num(6000))
               THEN PollingResolved(s, h, BATTERY_FAST_POLL_PERIOD)
               ELSE CHOOSE p \in {
                        PollingResolved(
                          [s EXCEPT !.ds.batteryPct = frac, !.ds.batteryMV = mv],
                          h, BATTERY_SLOW_POLL_PERIOD)
                      : frac \in {MathMax(invLerpClamped(3600, 4100, mv),
                                          Frac(1, 100))}} : TRUE
             : mv \in {BatteryMillivolts(batteryString)}} : TRUE
      ELSE PollingResolved(s, h, BATTERY_FAST_POLL_PERIOD)
    : s \in {state}} : TRUE

\* pollBattery called by helper h, up to its first await or its return
PollBattery(state, h) ==
  CHOOSE r \in {
      IF ~s.mw.isConnected_
      THEN PollingResolved(s, h, BATTERY_FAST_POLL_PERIOD)
      ELSE IF CanRunCommand(s)
           THEN WriteWithResponse([s EXCEPT !.poll.helpers[h].pc = "GB"],
                                  s.mgr.connection_, "GB", FALSE, h)
           ELSE PollBatteryResumed(s, h, Null)
    : s \in {state}} : TRUE

\* syncClock, awaited by pollClock of helper h, has returned
SyncClockResumed(state, h) == PollingResolved(state, h, CLOCK_FAST_POLL_PERIOD)

\* syncClock called by pollClock of helper h
SyncClock(state, h) ==
  CHOOSE r \in {
      IF CanRunCommand(s)
      THEN WriteWithResponse([s EXCEPT !.poll.helpers[h].pc = "ST"],
                             s.mgr.connection_, "ST", FALSE, h)
      ELSE SyncClockResumed(s, h)
    : s \in {state}} : TRUE

\* a - b on numbers
Minus(a, b) ==
  IF a.kind = "NaN" \/ b.kind = "NaN" THEN NaN
  ELSE Frac(a.num * b.den - b.num * a.den, a.den * b.den)

TimePrefix == <<"T", "i", "m", "e", "(", "s", ")", ":", " ">>

\* pollClock of helper h resumed with runCommand's result
PollClockResumed(state, h, timeString) ==
  CHOOSE r \in {
      IF Truthy(timeString)
      THEN LET veetEpoch == ParseInt(Slice(timeString, Len(TimePrefix),
                                           Len(timeString)))
               diff == Minus(veetEpoch, Num(HostEpoch))
               s1 == [s EXCEPT !.ds.timeOnVeet = veetEpoch]
           IN IF Less(diff, Num(0 - 5)) \/ Greater(diff, Num(5))
              THEN SyncClock(s1, h)
              ELSE PollingResolved(s1, h, CLOCK_SLOW_POLL_PERIOD)
      ELSE PollingResolved(s, h, CLOCK_FAST_POLL_PERIOD)
    : s \in {state}} : TRUE

\* pollClock called by helper h, up to its first await or its return
PollClock(state, h) ==
  CHOOSE r \in {
      IF ~s.mw.isConnected_
      THEN PollingResolved(s, h, CLOCK_FAST_POLL_PERIOD)
      ELSE IF CanRunCommand(s)
           THEN WriteWithResponse([s EXCEPT !.poll.helpers[h].pc = "GT"],
                                  s.mgr.connection_, "GT", FALSE, h)
           ELSE PollClockResumed(s, h, Null)
    : s \in {state}} : TRUE

\* a runPolling that schedules the next call at a fixed rate, when it calls
MutRunPollingFixedRate(state, h) ==
  CHOOSE r \in {
      LET s1 == [s EXCEPT !.poll.helpers[h].calls = @ + 1,
                          !.poll.helpers[h].outstanding = @ + 1,
                          !.poll.helpers[h].timeoutHandler_ =
                             BATTERY_FAST_POLL_PERIOD]
      IN IF s.poll.helpers[h].kind = "battery"
         THEN PollBattery(s1, h) ELSE PollClock(s1, h)
    : s \in {state}} : TRUE

\* PollingHelper.runPolling of helper h: call the callback
RunPolling(state, h) ==
  CHOOSE r \in {
      LET s1 == [s EXCEPT !.poll.helpers[h].calls = @ + 1,
                          !.poll.helpers[h].outstanding = @ + 1]
      IN IF s.poll.helpers[h].kind = "battery"
         THEN PollBattery(s1, h) ELSE PollClock(s1, h)
    : s \in {state}} : TRUE

\* the await of helper h's callback resumes with what runCommand returned
HelperResumed(state, h, ret) ==
  CHOOSE r \in {
      LET pc == s.poll.helpers[h].pc
      IN IF pc = "GB" THEN PollBatteryResumed(s, h, ret)
         ELSE IF pc = "GT" THEN PollClockResumed(s, h, ret)
         ELSE SyncClockResumed(s, h)
    : s \in {state}} : TRUE

\* new PollingHelper(callback): the constructor runs the callback at once
NewPollingHelper(state, kind) ==
  CHOOSE r \in {
      LET h == s.poll.nextHelper
      IN RunPolling(
           [s EXCEPT !.poll.nextHelper = h + 1,
                     !.poll.helpers[h] = [NewHelper EXCEPT !.kind = kind,
                                                          !.isPolling_ = TRUE],
                     !.poll.batteryPoller_ = IF kind = "battery" THEN h ELSE @,
                     !.poll.clockPoller_ = IF kind = "clock" THEN h ELSE @],
           h)
    : s \in {state}} : TRUE

\* a sensor loop that polls the IMU whatever the tab
MutSensorCommandFixed(tab) == IMU_POLL_COMMAND

\* the datastore field and the command of a sensor tab
SensorTabs == {PHO, TOF, ALS, IMU}
SensorField(tab) ==
  IF tab = PHO THEN "phoData" ELSE IF tab = TOF THEN "tofData"
  ELSE IF tab = ALS THEN "alsData" ELSE "imuData"
SensorCommand(tab) ==
  IF tab = PHO THEN PHO_POLL_COMMAND ELSE IF tab = TOF THEN TOF_POLL_COMMAND
  ELSE IF tab = ALS THEN ALS_POLL_COMMAND ELSE IMU_POLL_COMMAND

\* a sensor loop that stores every response that is not empty
MutSensorStoreErr(state, tab, str) ==
  CHOOSE r \in {
      LET s1 == [s EXCEPT !.poll.sensor = [pc |-> "sleeping", tab |-> Null,
                                           timer |-> @.timer, str |-> Null]]
      IN IF Truthy(str)
         THEN [s1 EXCEPT !.ds[SensorField(tab)] = str,
                         !.poll.recorded = Append(@, str)]
         ELSE s1
    : s \in {state}} : TRUE

\* the sensor loop has the response str to the poll of tab: the datastore
\* and the recorder get it if it is usable, then the loop sleeps
SensorStore(state, tab, str) ==
  CHOOSE r \in {
      LET s1 == [s EXCEPT !.poll.sensor = [pc |-> "sleeping", tab |-> Null,
                                           timer |-> @.timer, str |-> Null]]
      IN IF Truthy(str) /\ ~StartsWith(str, ErrPrefix)
         THEN [s1 EXCEPT !.ds[SensorField(tab)] = str,
                         !.poll.recorded = Append(@, str)]
         ELSE s1
    : s \in {state}} : TRUE

\* the sensor loop's runCommand has returned str; the TOF poll also waits for
\* its half-second timer
SensorResumed(state, str) ==
  CHOOSE r \in {
      IF s.poll.sensor.tab = TOF /\ s.poll.sensor.timer
      THEN [s EXCEPT !.poll.sensor.pc = "joining", !.poll.sensor.str = str]
      ELSE SensorStore(s, s.poll.sensor.tab, str)
    : s \in {state}} : TRUE

\* one pass of the sensor loop with currentTab_ = tab, up to an await
SensorPass(state, tab) ==
  CHOOSE r \in {
      IF s.mw.isConnected_ /\ tab \in SensorTabs
      THEN LET s1 == [s EXCEPT !.poll.sensor = [pc |-> "awaiting", tab |-> tab,
                                                timer |-> tab = TOF,
                                                str |-> Null]]
           IN IF CanRunCommand(s)
              THEN WriteWithResponse(s1, s.mgr.connection_, SensorCommand(tab),
                                     FALSE, SensorLoop)
              ELSE SensorResumed(s1, Null)
      ELSE [s EXCEPT !.poll.sensor.pc = "sleeping"]
    : s \in {state}} : TRUE

\* a startPollSensorThread that starts a loop on every call
MutStartSensorAlways(state, tab) ==
  CHOOSE r \in {
      IF s.poll.sensor.pc \in {"off", "sleeping"}
      THEN SensorPass([s EXCEPT !.poll.sensorPollThreadRunning = TRUE,
                                !.poll.sensorThreads = @ + 1], tab)
      ELSE [s EXCEPT !.poll.sensorThreads = @ + 1]
    : s \in {state}} : TRUE

\* startPollSensorThread: a loop that is running is left alone
StartPollSensorThread(state, tab) ==
  CHOOSE r \in {
      IF s.poll.sensorPollThreadRunning THEN s
      ELSE SensorPass([s EXCEPT !.poll.sensorPollThreadRunning = TRUE,
                                !.poll.sensorThreads = @ + 1], tab)
    : s \in {state}} : TRUE

\* the poller `kind` of startPolls: stop the helper there is, build a new one
RestartPoller(state, kind) ==
  CHOOSE r \in {
      LET old == IF kind = "battery" THEN s.poll.batteryPoller_
                 ELSE s.poll.clockPoller_
      IN NewPollingHelper(
           [s EXCEPT !.poll.helpers =
              [h \in Helpers |-> IF h = old THEN PollingHelperStop(@[h])
                                 ELSE @[h]]],
           kind)
    : s \in {state}} : TRUE

\* startPolls
StartPolls(state, tab) ==
  StartPollSensorThread(
    RestartPoller(RestartPoller(state, "battery"), "clock"), tab)

\* the continuation of the poller whose command has returned first
Resume(state) ==
  CHOOSE r \in {
      LET t == Head(s.poll.ready)
          s1 == [s EXCEPT !.poll.ready = Tail(@)]
      IN IF s.tx[t].by = SensorLoop
         THEN SensorResumed(s1, s.tx[t].ret)
         ELSE HelperResumed(s1, s.tx[t].by, s.tx[t].ret)
    : s \in {state}} : TRUE

\* a disconnected that does not arm the retry interval
MutDisconnectedNoRetry(state, c) ==
  CHOOSE r \in {
      [s EXCEPT !.mw.isConnected_ = FALSE,
                !.poll = StopPolls(@),
                !.ds = initialData,
                !.hist.mwRuns = IF c \in Conns THEN [@ EXCEPT ![c] = @ + 1] ELSE @]
    : s \in {state}} : TRUE

\* MainWindow.disconnected, run for the session c: stopPolls, resetDataStore,
\* the retry interval
MainWindowDisconnected(state, c) ==
  CHOOSE r \in {
      [s EXCEPT !.mw.isConnected_ = FALSE,
                !.poll = StopPolls(@),
                !.ds = initialData,
                !.mw.connectionRetry_ = TRUE,
                !.hist.mwRuns = IF c \in Conns THEN [@ EXCEPT ![c] = @ + 1] ELSE @]
    : s \in {state}} : TRUE

\* SerialManager.disconnect, run as the 'disconnect' listener of connection c
\* a SerialManager.disconnect that leaves connectedPort_ as it was
MutDisconnectKeepsPort(state, c) ==
  CHOOSE r \in {
      MainWindowDisconnected(
        [s EXCEPT !.mgr.connection_ = NoConn,
                  !.ds.connectionPort = Null,
                  !.hist.emits[c] = @ + 1],
        c)
    : s \in {state}} : TRUE

SerialManagerDisconnect(state, c) ==
  CHOOSE r \in {
      MainWindowDisconnected(
        [s EXCEPT !.mgr = [connection_ |-> NoConn, connectedPort_ |-> UnconnectedPort],
                  !.ds.connectionPort = Null,
                  !.hist.emits[c] = @ + 1],
        c)
    : s \in {state}} : TRUE

\* the port check of disconnect and of writeWithResponse
PortIsOpen(k) == k.portRef /\ k.port = "open"

\* SerialConnection.disconnect
SerialConnectionDisconnect(state, c) ==
  CHOOSE r \in {
      LET k == s.conn[c]
          s1 == [s EXCEPT !.conn[c] =
                   [k EXCEPT !.listeners = {},
                             !.parser = FALSE,
                             !.port = IF PortIsOpen(k) THEN "closing" ELSE @,
                             !.closeCalled = @ \/ PortIsOpen(k),
                             !.portRef = FALSE]]
      IN IF k.mgrHooked THEN SerialManagerDisconnect(s1, c) ELSE s1
    : s \in {state}} : TRUE

\* an 'error' listener that tears the connection down
MutHandleErrorDisconnects(s, c) == SerialConnectionDisconnect(s, c)

\* SerialConnection.handleError, the 'error' listener of c's port: it logs
HandleError(s, c) == s

\* ------------------------------------------------------------- discovery
\* a filter that looks at the product id only
MutProductOnly(portInfo) == portInfo.productId = VEET_PRODUCT_ID

\* findVeet's filter on the vendor and product ids
IsVeetPort(portInfo) ==
  ~(ToLowerCase(portInfo.vendorId) # VEET_VENDOR_ID
      \/ portInfo.productId # VEET_PRODUCT_ID)

Matching(list) == {i \in 1..Len(list) : IsVeetPort(list[i])}

\* the next candidate of findVeet's loop after position i (0: none is left)
NextCandidate(list, i) ==
  LET later == {j \in Matching(list) : j > i}
  IN IF later = {} THEN 0 ELSE CHOOSE j \in later : \A k \in later : j <= k

\* SerialManager.isConnected
IsConnected(s) == s.mgr.connection_ # NoConn

\* a findVeet without the isConnected check
MutFindVeetAlwaysLists(state) == [state EXCEPT !.fv.pc = "listing"]

\* findVeet up to its first return or await: with a session it returns
\* CONNECTED at once, without one it calls SerialPort.list()
FindVeetBegin(state) ==
  IF IsConnected(state) THEN state ELSE [state EXCEPT !.fv.pc = "listing"]

\* ------------------------------------------------------- the drive search
\* the mount point of the device's storage
DrivePath == "E:"

\* what drivelist's list() gives findDrive: the device's drive with a mount
\* point, no such drive, or an error
DriveOutcomes == {"found", "none", "throws"}

\* findDrive resumed with the outcome of list(), up to its call of
\* postDriveFind; an error is caught and logged
FindDriveListed(state, outcome) ==
  IF outcome = "found" THEN [state EXCEPT !.ds.drivePath = DrivePath]
  ELSE IF outcome = "none" THEN [state EXCEPT !.ds.drivePath = Null]
  ELSE state

\* findDrive after postDriveFind: `Stop searching`
FindDriveStops(state) ==
  IF state.mw.driveRetry_
  THEN [state EXCEPT !.mw.driveRetry_ = FALSE, !.mw.driveRetryArmed = FALSE]
  ELSE state

\* attemptConnection's clearInterval(driveRetry_) after a disconnect during
\* the drive search: driveRetry_ keeps the handle
ClearDriveRetry(state) ==
  IF state.mw.driveRetry_
  THEN [state EXCEPT !.mw.driveRetryArmed = FALSE]
  ELSE state

\* startDriveSearch resumed after findDrive, and attemptConnection after it,
\* up to checkSerialNumber
StartDriveSearchResumed(state) ==
  CHOOSE r \in {
      LET s1 == IF s.ds.drivePath = Null /\ ~s.mw.driveRetry_
                THEN [s EXCEPT !.mw.driveRetry_ = TRUE,
                               !.mw.driveRetryArmed = TRUE]
                ELSE s
      IN IF ~s1.mw.isConnected_
         THEN [ClearDriveRetry(s1) EXCEPT
                 !.mw.connectionAttemptInFlight_ = FALSE,
                 !.mw.pc = "idle", !.mw.findDrive = "idle"]
         ELSE [s1 EXCEPT !.mw.pc = "checks", !.mw.findDrive = "idle"]
    : s \in {state}} : TRUE

\* attemptConnection resumed with findVeet's result
FindVeetReturns(state, status) ==
  CHOOSE r \in {
      LET s1 == [s EXCEPT !.fv = [pc |-> "idle", list |-> <<>>, idx |-> 0,
                                  c |-> NoConn, status |-> status]]
      IN IF status = CONNECTED
         THEN \* isConnected_ = true, then the awaited post-connection steps,
              \* startDriveSearch first: its findDrive returns at once when
              \* the drive path is known and awaits list() otherwise
              IF s1.ds.drivePath # Null
              THEN StartDriveSearchResumed([s1 EXCEPT !.mw.isConnected_ = TRUE])
              ELSE [s1 EXCEPT !.mw.isConnected_ = TRUE, !.mw.pc = "post",
                              !.mw.findDrive = "listing"]
         ELSE LET s2 == IF s1.mw.isConnected_
                        THEN MainWindowDisconnected(s1, NoConn) ELSE s1
              IN [s2 EXCEPT !.mw.connectionAttemptInFlight_ = FALSE, !.mw.pc = "idle"]
    : s \in {state}} : TRUE

\* findVeet's loop from position i on: new SerialConnection, connect(path) up
\* to its wait for the port's 'open' event
FindVeetLoop(state, list, i) ==
  CHOOSE r \in {
      LET j == NextCandidate(list, i)
          c == s.nextConn
      IN IF j = 0
         THEN FindVeetReturns(s, NONE_FOUND)
         ELSE [s EXCEPT !.conn[c] = [NewConn EXCEPT !.port = "opening",
                                                   !.path = list[j].path,
                                                   !.portRef = TRUE],
                        !.nextConn = c + 1,
                        !.fv = [pc |-> "connecting", list |-> list, idx |-> j,
                                c |-> c, status |-> s.fv.status]]
    : s \in {state}} : TRUE

\* a findVeet that goes on to the next candidate after a success
MutKeepsEnumerating(state, c, isReady) ==
  IF isReady
  THEN FindVeetLoop(
         [state EXCEPT !.mgr = [connection_ |-> c,
                                connectedPort_ |-> state.conn[c].path],
                       !.ds.connectionPort = state.conn[c].path,
                       !.conn[c].mgrHooked = TRUE,
                       !.conn[c].ready = "true"],
         state.fv.list, state.fv.idx)
  ELSE LET s1 == [state EXCEPT !.conn[c].ready = "false"]
       IN IF state.mgr.connection_ # NoConn
          THEN FindVeetReturns(s1, CONNECTED)
          ELSE FindVeetLoop(s1, state.fv.list, state.fv.idx)

\* a findVeet that gives up at the first candidate that fails
MutGivesUpAfterFirst(state, c, isReady) ==
  IF isReady
  THEN FindVeetReturns(
         [state EXCEPT !.mgr = [connection_ |-> c,
                                connectedPort_ |-> state.conn[c].path],
                       !.ds.connectionPort = state.conn[c].path,
                       !.conn[c].mgrHooked = TRUE,
                       !.conn[c].ready = "true"],
         CONNECTED)
  ELSE FindVeetReturns([state EXCEPT !.conn[c].ready = "false"], NONE_FOUND)

\* findVeet resumed with connect's result (kept in conn[c].ready) for the
\* candidate at fv.idx
ConnectReturns(state, c, isReady) ==
  CHOOSE r \in {
      IF isReady
      THEN FindVeetReturns(
             [s EXCEPT !.mgr = [connection_ |-> c, connectedPort_ |-> s.conn[c].path],
                       !.ds.connectionPort = s.conn[c].path,
                       !.conn[c].mgrHooked = TRUE,
                       !.conn[c].ready = "true"],
             CONNECTED)
      ELSE LET s1 == [s EXCEPT !.conn[c].ready = "false"]
           IN IF s.mgr.connection_ # NoConn
              THEN FindVeetReturns(s1, CONNECTED)
              ELSE FindVeetLoop(s1, s.fv.list, s.fv.idx)
    : s \in {state}} : TRUE

\* a test that drops the prefix check
\* a connect that takes any frame for the identity
MutAnyResponse(code, value) == code = VALID_RESPONSE

MutAnyNonEmptyResponse(code, value) == code = VALID_RESPONSE /\ value # <<>>

\* connect's test of the identity response
IsVeetResponse(code, value) ==
  code = VALID_RESPONSE /\ value # <<>> /\ StartsWith(value, BuildPrefix)

\* a connect that returns false without calling disconnect
MutHandshakeNoDisconnect(state, c, code, value) ==
  IF IsVeetResponse(code, value)
  THEN ConnectReturns([state EXCEPT !.conn[c].closeHooked = TRUE], c, TRUE)
  ELSE ConnectReturns(state, c, FALSE)

\* connect resumed with the response to 'VR'
HandshakeDone(state, c, code, value) ==
  CHOOSE r \in {
      IF IsVeetResponse(code, value)
      THEN ConnectReturns([s EXCEPT !.conn[c].closeHooked = TRUE], c, TRUE)
      ELSE ConnectReturns(SerialConnectionDisconnect(s, c), c, FALSE)
    : s \in {state}} : TRUE

\* ------------------------------------------------------- writeWithResponse
\* queue_.end placed after the try block instead of in a finally: the early
\* return of the port check skips it
MutReleaseAfterTry(code) == code # PORT_NOT_OPEN

\* the finally block: queue_.end(mySymbol) runs whatever the outcome
ReleasesTicket(code) == TRUE

\* a runCommand that hands the response's value back whatever its code
MutRunCommandReturnsValue(code, value) == value

\* SerialManager.runCommand resumed with the response: what it, and with it
\* MainWindow.runCommand, returns
RunCommandReturns(code, value) == IF code = VALID_RESPONSE THEN value ELSE Null

\* a finally block that leaves the observable alone
MutKeepInFlight(d) == d

\* the finally block of writeWithResponse on the datastore
ClearInFlight(d) == [d EXCEPT !.commandInFlight = FALSE]

\* `return resp` of transaction t with the given code and value, the finally
\* block, and the resumption of the caller: connect, findVeet and
\* attemptConnection when t is the identity query of the connect in progress;
\* a poller that awaits the command is made ready to resume
Return(state, t, code, value) ==
  CHOOSE r \in {
      LET c == s.tx[t].conn
          rel == ReleasesTicket(code)
          s1 == [s EXCEPT !.tx[t].pc = "done",
                          !.tx[t].cmdTakingTooLong = FALSE,
                          !.ds = ClearInFlight(@),
                          !.tx[t].code = code,
                          !.tx[t].value = value,
                          !.tx[t].ret = IF s.tx[t].hs THEN @
                                        ELSE RunCommandReturns(code, value),
                          !.tx[t].releases = IF rel THEN @ + 1 ELSE @,
                          !.queue[c] = IF rel THEN QueueEnd(@, t) ELSE @,
                          !.poll.ready = IF s.tx[t].by = NoPoller THEN @
                                         ELSE Append(@, t)]
      IN IF s.tx[t].hs /\ s.fv.pc = "connecting" /\ s.fv.c = c
         THEN HandshakeDone(s1, c, code, value)
         ELSE s1
    : s \in {state}} : TRUE

\* a writeWithResponse that does not check the port
MutBeginTxNoPortCheck(state, t, throws) ==
  CHOOSE r \in {
      LET c == s.tx[t].conn
          k == s.conn[c]
          s1 == [s EXCEPT !.tx[t].timer = TRUE,
                          !.conn[c].listeners =
                             IF k.parser THEN @ \cup {t} ELSE @]
      IN IF throws
         THEN Return(s1, t, UNEXPECTED_ERROR, <<>>)
         ELSE [s1 EXCEPT !.tx[t].pc = "awaiting",
                         !.tx[t].writes = @ + 1,
                         !.tx[t].cmdTakingTooLong = TRUE,
                         !.wire[c] = Append(@, t)]
    : s \in {state}} : TRUE

\* a writeWithResponse that arms the timer and the listener before it checks
\* the port
MutBeginTxArmsFirst(state, t, throws) ==
  CHOOSE r \in {
      LET c == s.tx[t].conn
          k == s.conn[c]
          s1 == [s EXCEPT !.tx[t].timer = TRUE,
                          !.conn[c].listeners = @ \cup {t}]
      IN IF ~PortIsOpen(k)
         THEN Return(s1, t, PORT_NOT_OPEN, <<>>)
         ELSE IF throws
              THEN Return(s1, t, UNEXPECTED_ERROR, <<>>)
              ELSE [s1 EXCEPT !.tx[t].pc = "awaiting",
                              !.tx[t].writes = @ + 1,
                              !.tx[t].cmdTakingTooLong = TRUE,
                              !.wire[c] = Append(@, t)]
    : s \in {state}} : TRUE

\* writeWithResponse of t resumed after its wait: the port check, the timer
\* and the frame listener, the write (which throws or not), the
\* slow-command timer
BeginTx(state, t, throws) ==
  CHOOSE r \in {
      LET c == s.tx[t].conn
          k == s.conn[c]
      IN IF ~PortIsOpen(k)
         THEN Return(s, t, PORT_NOT_OPEN, <<>>)
         ELSE LET s1 == [s EXCEPT !.tx[t].timer = TRUE,
                                  !.conn[c].listeners =
                                     IF k.parser THEN @ \cup {t} ELSE @]
              IN IF throws
                 THEN Return(s1, t, UNEXPECTED_ERROR, <<>>)
                 ELSE [s1 EXCEPT !.tx[t].pc = "awaiting",
                                 !.tx[t].writes = @ + 1,
                                 !.tx[t].cmdTakingTooLong = TRUE,
                                 !.wire[c] = Append(@, t)]
    : s \in {state}} : TRUE

\* the transactions whose wait has resolved and which have not resumed yet
Granted(s) ==
  {t \in Txs : s.tx[t].pc = "queued" /\ t \in s.queue[s.tx[t].conn].running}

\* run the continuations this step has made runnable
RECURSIVE Pump(_, _)
Pump(state, throws) ==
  CHOOSE r \in {
      IF s.poll.ready # <<>> THEN Pump(Resume(s), throws)
      ELSE IF Granted(s) = {} THEN s
      ELSE LET t == CHOOSE x \in Granted(s) : \A y \in Granted(s) : x <= y
           IN Pump(BeginTx(s, t, throws), throws)
    : s \in {state}} : TRUE

\* a listener that fills in the response itself, whether or not the race is
\* still open
MutOnDataOverwrites(state, t, f, k) ==
  CHOOSE r \in {
      IF s.tx[t].pc = "awaiting"
      THEN Return([s EXCEPT !.tx[t].rx = <<[frame |-> f, for |-> k]>>],
                  t, VALID_RESPONSE, Trim(f))
      ELSE [s EXCEPT !.tx[t].code = VALID_RESPONSE,
                     !.tx[t].value = Trim(f),
                     !.tx[t].late = TRUE]
    : s \in {state}} : TRUE

\* The once('data') listener of transaction t receives frame f, which the
\* device sent in reply to the command of transaction k: pNewLines resolves,
\* and the race's handler runs if the race is still open.
OnData(state, t, f, k) ==
  CHOOSE r \in {
      IF s.tx[t].pc = "awaiting"
      THEN Return([s EXCEPT !.tx[t].rx = <<[frame |-> f, for |-> k]>>],
                  t, VALID_RESPONSE, Trim(f))
      ELSE [s EXCEPT !.tx[t].late = TRUE]
    : s \in {state}} : TRUE

RECURSIVE EmitData(_, _, _, _)
EmitData(state, L, f, k) ==
  CHOOSE r \in {
      IF L = {} THEN s
      ELSE LET t == CHOOSE x \in L : \A y \in L : x <= y
           IN EmitData(OnData(s, t, f, k), L \ {t}, f, k)
    : s \in {state}} : TRUE

\* a timeout handler that also tears the connection down
MutOnTimeoutDisconnects(state, t) ==
  CHOOSE r \in {
      LET s1 == [s EXCEPT !.tx[t].timer = FALSE]
      IN IF s.tx[t].pc = "awaiting"
         THEN SerialConnectionDisconnect(
                Return(s1, t, RESPONSE_TIMED_OUT, <<>>), s.tx[t].conn)
         ELSE s1
    : s \in {state}} : TRUE

\* a timer whose callback does not reject
MutOnTimeoutSilent(s, t) == [s EXCEPT !.tx[t].timer = FALSE]

\* pTimeout's timer of transaction t fires
OnTimeout(state, t) ==
  CHOOSE r \in {
      LET s1 == [s EXCEPT !.tx[t].timer = FALSE]
      IN IF s.tx[t].pc = "awaiting"
         THEN Return(s1, t, RESPONSE_TIMED_OUT, <<>>)
         ELSE s1
    : s \in {state}} : TRUE

\* ----------------------------------------------------------------- steps
\* The timer of a race that is still open fires.  (A timer that fires after
\* its race was settled rejects a promise nobody awaits; that callback is left
\* out, and tx[t].timer then stays set: the timer was left armed.)
\* the slow-command timer of t fires
SlowTimerFires(t) ==
  /\ tx[t].cmdTakingTooLong
  /\ Commit([State EXCEPT !.tx[t].cmdTakingTooLong = FALSE,
                          !.tx[t].tooLong = TRUE,
                          !.ds.commandInFlight = TRUE])

Timeout(t) ==
  /\ tx[t].timer
  /\ tx[t].pc = "awaiting"
  /\ \E throws \in BOOLEAN : Commit(Pump(OnTimeout(State, t), throws))

\* The decoder of connection c emits the device's next frame.
FrameFromDevice(c, f) ==
  /\ conn[c].port = "open"
  /\ conn[c].parser
  /\ wire[c] # <<>>
  /\ \E throws \in BOOLEAN :
       \E r \in {Pump(EmitData([State EXCEPT !.conn[c].listeners = {},
                                             !.wire[c] = Tail(@)],
                               conn[c].listeners, f, Head(wire[c])),
                      throws)} :
         r.nextTx <= MaxTx + MaxPollTx + 1 /\ Commit(r)

FrameArrives(c) ==
  /\ wire[c] # <<>>
  /\ \E f \in DeviceReplies(tx[Head(wire[c])].cmd) : FrameFromDevice(c, f)

\* The battery readings a device may report, in millivolts: around the limits
\* of the accepted range and of the 3600..4100 ramp.
BatteryReadings ==
  {0, 99, 100, 101, 999, 1000, 3599, 3600, 3604, 3605, 3606, 3850, 4050, 4099,
   4100, 4101, 5999, 6000, 6001, 9999}

\* a natural number in decimal
RECURSIVE ToDigits(_)
ToDigits(n) ==
  IF n < Len(Digits) THEN <<Digits[n + 1]>>
  ELSE ToDigits(n \div Len(Digits)) \o <<Digits[(n % Len(Digits)) + 1]>>

\* the two shapes of a GB response: 'Battery: NNNNmV' and 'TIMESTAMP,BAT,NNNN'
BatteryText(mv) == BatteryPrefix \o ToDigits(mv) \o <<"m", "V">>
BatteryRecord(timestamp, mv) ==
  ToDigits(timestamp) \o <<",", "B", "A", "T", ",">> \o ToDigits(mv)

\* GB responses that carry no reading
BatteryGarbage ==
  { BatteryPrefix \o <<"m", "V">>,
    BatteryPrefix,
    <<"7", ",", "B", "A", "T", ",">>,
    <<"7", ",", "B", "A", "T", ",", "x">>,
    <<"B", "A", "T">>,
    ErrPrefix }

BatteryReplies ==
  {BatteryText(mv) : mv \in BatteryReadings}
    \cup {BatteryRecord(7, mv) : mv \in BatteryReadings}
    \cup BatteryGarbage

\* the device answers a GB command
BatteryFrameArrives(c) ==
  /\ wire[c] # <<>>
  /\ tx[Head(wire[c])].cmd = "GB"
  /\ \E f \in BatteryReplies : FrameFromDevice(c, f \o <<"\r", "\n">>)

\* MainWindow.runCommand -> SerialManager.runCommand -> writeWithResponse
RunCommand ==
  /\ nextTx <= MaxTx
  /\ mw.isConnected_
  /\ mgr.connection_ # NoConn
  /\ \E throws \in BOOLEAN :
       Commit(Pump(WriteWithResponse(State, mgr.connection_, CmdOf(nextTx),
                                     FALSE, NoPoller),
                   throws))

\* MainWindow.runCommand -> SerialManager.runCommand without a connection:
\* one of them returns null at once (hist.refused keeps what the call returned)
RunCommandNotConnected ==
  /\ ~(mw.isConnected_ /\ mgr.connection_ # NoConn)
  /\ Commit([State EXCEPT !.hist.refused = Null])

\* the port of c opens: connect flushes, pipes the decoder and sends 'VR'
PortOpens(c, throws) ==
  /\ conn[c].port = "opening"
  /\ nextTx <= MaxTx
  /\ \E r \in {Pump(WriteWithResponse(
                      [State EXCEPT !.conn[c].port = "open",
                                    !.conn[c].parser = TRUE,
                                    !.wire[c] = <<>>],
                      c, VR, TRUE, NoPoller),
                    throws)} :
       Commit(r)

PortOpened(c) == \E throws \in BOOLEAN : PortOpens(c, throws)

\* the port of c fails to open: 'error' is emitted, connect returns false
PortOpenFailed(c) ==
  /\ conn[c].port = "opening"
  /\ Commit(ConnectReturns(
              HandleError([State EXCEPT !.conn[c].port = "failed"], c), c, FALSE))

\* the 'close' listeners of c's port
EmitClose(state, c) ==
  CHOOSE r \in {
      IF s.conn[c].closeHooked THEN SerialConnectionDisconnect(s, c) ELSE s
    : s \in {state}} : TRUE

\* the open port of c goes away (the device is unplugged)
PortLost(c) ==
  /\ conn[c].port = "open"
  /\ Commit(EmitClose([State EXCEPT !.conn[c].port = "closed"], c))

\* a close() requested by disconnect completes
PortClosed(c) ==
  /\ conn[c].port = "closing"
  /\ Commit(EmitClose([State EXCEPT !.conn[c].port = "closed"], c))

\* the open port of c emits 'error'; hist.errored keeps the sessions that
\* were active when their port did
PortError(c) ==
  /\ conn[c].port = "open"
  /\ Commit(HandleError(
              [State EXCEPT !.hist.errored =
                 IF mgr.connection_ = c THEN @ \cup {c} ELSE @], c))

\* a caller invokes the public method disconnect of the active session's
\* SerialConnection
ExplicitDisconnect(c) ==
  /\ mgr.connection_ = c
  /\ Commit(SerialConnectionDisconnect(State, c))

\* an attemptConnection without the in-flight check
MutNeverInFlight(s) == FALSE

\* attemptConnection's check of the in-flight flag
AttemptInFlight(s) == s.mw.connectionAttemptInFlight_

\* attemptConnection, called by the connectionRetry_ interval (and once by
\* createWindow right after arming it), up to findVeet's SerialPort.list()
AttemptConnection ==
  /\ mw.connectionRetry_
  /\ ~AttemptInFlight(State)
  /\ ~mw.isConnected_
  /\ \E s \in {[State EXCEPT !.mw.connectionAttemptInFlight_ = TRUE,
                             !.mw.pc = "findVeet"]} :
       \E r \in {IF IsConnected(s)
                 THEN FindVeetReturns(FindVeetBegin(s), CONNECTED)
                 ELSE FindVeetBegin(s)} :
         Commit(r)

\* a caller other than attemptConnection invokes findVeet while a session is
\* active; hist.direct keeps the status it returned
FindVeetCalled ==
  /\ IsConnected(State)
  /\ fv.pc = "idle"
  /\ Commit([FindVeetBegin(State) EXCEPT !.hist.direct = CONNECTED])

\* attemptConnection called by the interval while an attempt is in flight: it
\* returns at once (hist.skipped keeps that such a call was made)
AttemptConnectionSkipped ==
  /\ mw.connectionRetry_
  /\ AttemptInFlight(State)
  /\ Commit([State EXCEPT !.hist.skipped = TRUE])

\* SerialPort.list() resolves with list
PortsListed(list) ==
  /\ fv.pc = "listing"
  /\ Cardinality(Matching(list)) <= MaxConn - nextConn + 1
  /\ Cardinality(Matching(list)) <= MaxTx - nextTx + 1
  /\ \E r \in {IF list = <<>>
               THEN FindVeetReturns(
                      [State EXCEPT !.mgr = [connection_ |-> NoConn,
                                             connectedPort_ |-> UnconnectedPort]],
                      NONE_FOUND)
               ELSE FindVeetLoop(State, list, 0)} :
       Commit(r)

\* findVeet's SerialPort.list() rejects: findVeet has no handler, nor has
\* doAttemptConnection, so attemptConnection's `await doAttemptConnection()`
\* throws and the assignment after it is not reached
FindVeetThrows(state) ==
  [state EXCEPT !.fv.pc = "idle", !.mw.pc = "idle"]

\* SerialPort.list() rejects
PortsListFails ==
  /\ fv.pc = "listing"
  /\ mw.pc = "findVeet"
  /\ Commit(FindVeetThrows(State))

\* the awaited post-connection steps of attemptConnection have completed
\* (the commands of these steps and of the pollers they start are RunCommand
\* steps)
PostConnectionFrom(pc) ==
  /\ mw.pc = pc
  /\ Commit([State EXCEPT
       !.mw.connectionRetry_ = IF mw.isConnected_ THEN FALSE ELSE @,
       !.mw.connectionAttemptInFlight_ = FALSE,
       !.mw.pc = "idle"])

PostConnection == PostConnectionFrom("post")

\* list() settles for the findDrive that startDriveSearch awaits
DrivesListed(outcome) ==
  /\ mw.pc = "post"
  /\ mw.findDrive = "listing"
  /\ \E r \in {IF outcome = "found"
               THEN [FindDriveListed(State, outcome) EXCEPT
                       !.mw.findDrive = "postDriveFind"]
               ELSE StartDriveSearchResumed(FindDriveListed(State, outcome))} :
       Commit(r)

\* postDriveFind returns to, or throws in, the findDrive that
\* startDriveSearch awaits
PostDriveFindReturns(throws) ==
  /\ mw.pc = "post"
  /\ mw.findDrive = "postDriveFind"
  /\ \E r \in {StartDriveSearchResumed(IF throws THEN State
                                        ELSE FindDriveStops(State))} :
       Commit(r)

\* the driveRetry_ interval calls findDrive, which awaits list() (it returns
\* at once when the drive path is known)
DriveRetryFires ==
  /\ mw.driveRetryArmed
  /\ ds.drivePath = Null
  /\ mw.intervalListing + mw.intervalPost < MaxDriveCalls
  /\ Commit([State EXCEPT !.mw.intervalListing = @ + 1])

\* list() settles for a findDrive that the interval called
IntervalDrivesListed(outcome) ==
  /\ mw.intervalListing > 0
  /\ \E r \in {[FindDriveListed(State, outcome) EXCEPT
                  !.mw.intervalListing = @ - 1,
                  !.mw.intervalPost =
                    IF outcome = "found" THEN @ + 1 ELSE @]} :
       Commit(r)

\* postDriveFind returns to, or throws in, a findDrive that the interval
\* called
IntervalPostDriveFindReturns(throws) ==
  /\ mw.intervalPost > 0
  /\ \E r \in {[(IF throws THEN State ELSE FindDriveStops(State)) EXCEPT
                  !.mw.intervalPost = @ - 1]} :
       Commit(r)

\* ------------------------------------------------------- steps of the pollers
\* attemptConnection resumed after startDriveSearch and checkSerialNumber: it
\* returns if the window is disconnected and calls startPolls otherwise; the
\* sensor loop's first pass reads currentTab_ = tab
\* an attemptConnection whose early return leaves the in-flight flag set
MutEarlyReturnKeepsInFlight(tab) ==
  /\ mw.pc = "post"
  /\ \E throws \in BOOLEAN :
       \E r \in {IF mw.isConnected_
                 THEN Pump(StartPolls([State EXCEPT !.mw.pc = "polls"], tab),
                           throws)
                 ELSE [State EXCEPT !.mw.pc = "idle"]} :
         /\ r.nextTx <= MaxTx + MaxPollTx + 1
         /\ r.poll.nextHelper <= MaxConn + MaxConn + 1
         /\ Commit(r)

StartsPollsWithin(tab, calls) ==
  /\ mw.pc = "post"
  /\ \E throws \in BOOLEAN :
       \E r \in {IF mw.isConnected_
                 THEN Pump(StartPolls([State EXCEPT !.mw.pc = "polls"], tab),
                           throws)
                 ELSE [State EXCEPT !.mw.connectionAttemptInFlight_ = FALSE,
                                    !.mw.pc = "idle"]} :
         /\ r.nextTx <= calls + 1
         /\ r.poll.nextHelper <= MaxConn + MaxConn + 1
         /\ Commit(r)

AttemptConnectionStartsPolls(tab) == StartsPollsWithin(tab, MaxTx + MaxPollTx)

\* attemptConnection resumed after checkHardwareVersion and checkDeviceSide
AttemptConnectionCompletes ==
  /\ mw.pc = "polls"
  /\ \E r \in {[State EXCEPT
                  !.mw.connectionRetry_ = IF mw.isConnected_ THEN FALSE ELSE @,
                  !.mw.connectionAttemptInFlight_ = FALSE,
                  !.mw.pc = "idle"]} :
       Commit(r)

\* the timer of helper h fires: runPolling
PollTimerFires(h) ==
  /\ poll.helpers[h].timeoutHandler_ > 0
  /\ \E throws \in BOOLEAN :
       \E r \in {Pump(RunPolling([State EXCEPT
                                    !.poll.helpers[h].timeoutHandler_ = 0], h),
                      throws)} :
         r.nextTx <= MaxTx + MaxPollTx + 1 /\ Commit(r)

\* the sensor loop's sleep ends and it makes a pass with currentTab_ = tab
SensorWakes(tab) ==
  /\ poll.sensor.pc = "sleeping"
  /\ \E throws \in BOOLEAN :
       \E r \in {Pump(SensorPass(State, tab), throws)} :
         r.nextTx <= MaxTx + MaxPollTx + 1 /\ Commit(r)

\* the half-second timer of the TOF poll fires
TofTimerFires ==
  /\ poll.sensor.timer
  /\ IF poll.sensor.pc = "joining"
     THEN Commit(SensorStore([State EXCEPT !.poll.sensor.timer = FALSE],
                             TOF, poll.sensor.str))
     ELSE Commit([State EXCEPT !.poll.sensor.timer = FALSE])

\* ------------------------------------------------------ the frame decoder
\* the byte values of a stream: the terminator and two others
Bytes == {END_OF_TRANSMISSION_DELIMITER, 65, 66}
Streams == UNION {[1..n -> Bytes] : n \in 0..MaxStream}

\* Buffer.indexOf(delimiter): the first position of the terminator, 0 if none
IndexOf(data) ==
  LET at == {i \in 1..Len(data) : data[i] = END_OF_TRANSMISSION_DELIMITER}
  IN IF at = {} THEN 0 ELSE CHOOSE i \in at : \A j \in at : i <= j

\* the decoder's loop over data (the retained bytes followed by the chunk):
\* emit what lies before each terminator, keep the rest
RECURSIVE DelimiterTransform(_, _)
DelimiterTransform(data, frames) ==
  LET position == IndexOf(data)
  IN IF position = 0
     THEN [buffer |-> data, frames |-> frames]
     ELSE DelimiterTransform(
            SubSeq(data, position + 1, Len(data)),
            Append(frames,
                   SubSeq(data, 1, IF IncludeDelimiter THEN position
                                   ELSE position - 1)))

\* the transport hands the decoder the next n bytes of the stream
DataChunk(n) ==
  /\ n \in 1..Len(dec.stream)
  /\ LET chunk == SubSeq(dec.stream, 1, n)
         r == DelimiterTransform(dec.buffer \o chunk, dec.frames)
     IN dec' = [stream |-> SubSeq(dec.stream, n + 1, Len(dec.stream)),
                consumed |-> dec.consumed \o chunk,
                buffer |-> r.buffer,
                frames |-> r.frames]
  /\ UNCHANGED <<sessionVars, inp>>

\* A decoder fed an arbitrary byte stream in arbitrary chunks.
DecoderInit ==
  /\ InitSession
  /\ \E stream \in Streams : dec = NewDecoder(stream)
  /\ inp = NoInput
DecoderNext == \E n \in 1..MaxStream : DataChunk(n)
DecoderSpec == DecoderInit /\ [][DecoderNext]_vars

\* ------------------------------------------------------------------- Next
Next ==
  \/ AttemptConnection
  \/ \E list \in PortLists : PortsListed(list)
  \/ PostConnection
  \/ \E c \in Conns : PortOpened(c)
  \/ \E c \in Conns : PortOpenFailed(c)
  \/ \E c \in Conns : PortLost(c)
  \/ \E c \in Conns : PortClosed(c)
  \/ RunCommand
  \/ \E t \in Txs : Timeout(t)
  \/ \E c \in Conns : FrameArrives(c)

\* The program and its environment.  A transport 'error' event only logs
\* (HandleError), so it is left to ErrorSpec.
Spec == Init /\ [][Next]_vars

\* Spec with the slow-command timers of writeWithResponse
InFlightNext == Next \/ \E t \in Txs : SlowTimerFires(t)
InFlightSpec == Init /\ [][InFlightNext]_vars

\* Spec on a host whose port enumeration can fail
ListFailNext == Next \/ PortsListFails
ListFailSpec == Init /\ [][ListFailNext]_vars

\* Timers fire: the event loop runs every timer callback that is due.
LiveSpec == Spec /\ \A t \in Txs : WF_vars(Timeout(t))

\* Spec with the transport's 'error' events
ErrorNext == Next \/ \E c \in Conns : PortError(c)
ErrorSpec == Init /\ [][ErrorNext]_vars

\* Spec with runCommand calls made while there is no connection
CallerNext == Next \/ RunCommandNotConnected
CallerSpec == Init /\ [][CallerNext]_vars

\* Spec with the interval's calls of attemptConnection during an attempt
RetryNext == Next \/ AttemptConnectionSkipped
RetrySpec == Init /\ [][RetryNext]_vars

\* Spec with calls of findVeet during a session
DirectNext == Next \/ FindVeetCalled
DirectSpec == Init /\ [][DirectNext]_vars

\* Spec with explicit calls of SerialConnection.disconnect
TeardownNext == Next \/ \E c \in Conns : ExplicitDisconnect(c)
TeardownSpec == Init /\ [][TeardownNext]_vars

\* The program with its pollers: the battery and clock PollingHelpers and the
\* sensor loop issue the commands (in Spec, RunCommand stands for them).  The
\* user looks at a tab without a sensor, at the IMU tab or at the TOF tab.
PollTabs == {CONFIG, IMU, TOF}
PollNext ==
  \/ AttemptConnection
  \/ \E list \in PortLists : PortsListed(list)
  \/ \E tab \in PollTabs : AttemptConnectionStartsPolls(tab)
  \/ AttemptConnectionCompletes
  \/ \E c \in Conns : PortOpened(c)
  \/ \E c \in Conns : PortOpenFailed(c)
  \/ \E c \in Conns : PortLost(c)
  \/ \E c \in Conns : PortClosed(c)
  \/ \E t \in Txs : Timeout(t)
  \/ \E c \in Conns : FrameArrives(c)
  \/ \E h \in Helpers : PollTimerFires(h)
  \/ \E tab \in PollTabs : SensorWakes(tab)
  \/ TofTimerFires
PollSpec == Init /\ [][PollNext]_vars

\* PollSpec where the pollers of a second session can be started after those
\* of a first have made their calls.
RestartNext ==
  \/ AttemptConnection
  \/ \E list \in PortLists : PortsListed(list)
  \/ \E tab \in PollTabs :
       StartsPollsWithin(tab, MaxTx + MaxPollTx + MaxRestartTx)
  \/ AttemptConnectionCompletes
  \/ \E c \in Conns : PortOpened(c)
  \/ \E c \in Conns : PortOpenFailed(c)
  \/ \E c \in Conns : PortLost(c)
  \/ \E c \in Conns : PortClosed(c)
  \/ \E t \in Txs : Timeout(t)
  \/ \E c \in Conns : FrameArrives(c)
  \/ \E h \in Helpers : PollTimerFires(h)
  \/ \E tab \in PollTabs : SensorWakes(tab)
RestartSpec == Init /\ [][RestartNext]_vars

\* The program with its pollers while the user looks at the IMU tab, and with
\* the user's one-shot commands, asked for while connected and while not.
CommandNext ==
  \/ AttemptConnection
  \/ \E list \in PortLists : PortsListed(list)
  \/ AttemptConnectionStartsPolls(IMU)
  \/ AttemptConnectionCompletes
  \/ \E c \in Conns : PortOpened(c)
  \/ \E c \in Conns : PortOpenFailed(c)
  \/ \E c \in Conns : PortLost(c)
  \/ \E c \in Conns : PortClosed(c)
  \/ \E t \in Txs : Timeout(t)
  \/ \E c \in Conns : FrameArrives(c)
  \/ \E h \in Helpers : PollTimerFires(h)
  \/ SensorWakes(IMU)
  \/ RunCommand
  \/ RunCommandNotConnected
CommandSpec == Init /\ [][CommandNext]_vars

\* a device that answers a command other than a sensor poll with a frame that
\* is valid for the command
PlainFrameArrives(c) ==
  /\ wire[c] # <<>>
  /\ tx[Head(wire[c])].by # SensorLoop
  /\ \E f \in {g \in DeviceReplies(tx[Head(wire[c])].cmd) :
                 ~StartsWith(g, ErrPrefix) /\ Head(g) # "X" /\ Len(g) > 2} :
       FrameFromDevice(c, f)

\* The responses to a sensor poll: two samples, an empty line and an error
\* report.
SensorReplies ==
  { <<"4", "2">>, <<"4", "3">>, <<>>,
    ErrPrefix \o <<" ", "C", "o", "m", "m", "a", "n", "d", " ",
                   "f", "a", "i", "l", "e", "d">> }

\* the device answers a sensor poll
SensorFrameArrives(c) ==
  /\ wire[c] # <<>>
  /\ tx[Head(wire[c])].by = SensorLoop
  /\ \E f \in SensorReplies : FrameFromDevice(c, f \o <<"\r", "\n">>)

\* The sensor loop of one session on every tab, for every response to its
\* polls, a response that never comes included.
SensorNext ==
  \/ AttemptConnection
  \/ PortsListed(<<VeetA>>)
  \/ \E c \in Conns : PortOpened(c)
  \/ \E c \in Conns : PlainFrameArrives(c)
  \/ \E c \in Conns : SensorFrameArrives(c)
  \/ \E tab \in Tabs : AttemptConnectionStartsPolls(tab)
  \/ AttemptConnectionCompletes
  \/ \E tab \in Tabs : SensorWakes(tab)
  \/ TofTimerFires
  \/ \E t \in Txs : tx[t].by = SensorLoop /\ Timeout(t)
SensorSpec == Init /\ [][SensorNext]_vars

\* ------------------------------------------------------------- versions
\* The Version class with extra text (`${major}.${minor}.${patch}${extra}`)
\* and the Version class of VersionManager.ts with three numbers.
NoVersion == [parsed |-> FALSE]

\* the number of digits s begins with
RECURSIVE LeadingDigits(_)
LeadingDigits(s) ==
  IF s # <<>> /\ IsDigit(Head(s)) THEN 1 + LeadingDigits(Tail(s)) ELSE 0

\* VERSION_REGEX.exec: /^(\d+)\.(\d+)\.(\d+)(.*)$/, the four groups or no match
VersionRegexExec(version) ==
  LET n1 == LeadingDigits(version)
      r1 == SubSeq(version, n1 + 2, Len(version))
      n2 == LeadingDigits(r1)
      r2 == SubSeq(r1, n2 + 2, Len(r1))
      n3 == LeadingDigits(r2)
  IN IF /\ n1 > 0 /\ Len(version) > n1 /\ version[n1 + 1] = "."
        /\ n2 > 0 /\ Len(r1) > n2 /\ r1[n2 + 1] = "."
        /\ n3 > 0
     THEN [match |-> TRUE,
           groups |-> <<SubSeq(version, 1, n1), SubSeq(r1, 1, n2),
                        SubSeq(r2, 1, n3), SubSeq(r2, n3 + 1, Len(r2))>>]
     ELSE [match |-> FALSE, groups |-> <<>>]

validVersion(version) == VersionRegexExec(version).match

parseVersion(version) ==
  IF ~Truthy(version) \/ ~validVersion(version) THEN NoVersion
  ELSE LET g == VersionRegexExec(version).groups
       IN [parsed |-> TRUE,
           major |-> ParseInt(g[1]).num,
           minor |-> ParseInt(g[2]).num,
           patch |-> ParseInt(g[3]).num,
           extra |-> IF Len(g[4]) > 0 THEN g[4] ELSE Null]

hasExtra(v) == v.extra # Null /\ Len(v.extra) > 0

isNewerThan(this, other) ==
  IF this.major > other.major THEN TRUE
  ELSE IF this.major = other.major
  THEN IF this.minor > other.minor THEN TRUE
       ELSE IF this.minor = other.minor
       THEN IF this.patch > other.patch THEN TRUE
            ELSE this.patch = other.patch /\ hasExtra(other) /\ ~hasExtra(this)
       ELSE FALSE
  ELSE FALSE

isEqualTo(this, other) ==
  /\ this.major = other.major /\ this.minor = other.minor
  /\ this.patch = other.patch /\ hasExtra(this) = hasExtra(other)

isOlderThan(this, other) ==
  ~isEqualTo(this, other) /\ ~isNewerThan(this, other)

\* Version.toString
VersionToString(v) ==
  ToDigits(v.major) \o <<".">> \o ToDigits(v.minor) \o <<".">>
    \o ToDigits(v.patch) \o (IF v.extra # Null THEN v.extra ELSE <<>>)

\* VersionManager.ts: /^[0-9]+\.[0-9]+\.[0-9]+$/
validVersion3(version) ==
  LET r == VersionRegexExec(version) IN r.match /\ r.groups[4] = <<>>

parseVersion3(version) ==
  IF ~Truthy(version) \/ ~validVersion3(version) THEN NoVersion
  ELSE LET splt == Split(version, ".")
       IN [parsed |-> TRUE,
           major |-> ParseInt(splt[1]).num,
           minor |-> ParseInt(splt[2]).num,
           patch |-> ParseInt(splt[3]).num]

isNewerThan3(this, other) ==
  IF this.major > other.major THEN TRUE
  ELSE IF this.major = other.major
  THEN IF this.minor > other.minor THEN TRUE
       ELSE IF this.minor = other.minor
       THEN this.patch > other.patch
       ELSE FALSE
  ELSE FALSE

isEqualTo3(this, other) ==
  /\ this.major = other.major /\ this.minor = other.minor
  /\ this.patch = other.patch

isOlderThan3(this, other) ==
  ~isEqualTo3(this, other) /\ ~isNewerThan3(other, this)

\* the three comparisons of a pair of versions, both ways round, by the
\* methods of each Version class
Compare(a, b) ==
  IF a.parsed /\ b.parsed
  THEN [parsed |-> TRUE,
        newer |-> isNewerThan(a, b), equal |-> isEqualTo(a, b),
        older |-> isOlderThan(a, b),
        newerBack |-> isNewerThan(b, a), olderBack |-> isOlderThan(b, a)]
  ELSE NoVersion
Compare3(a, b) ==
  IF a.parsed /\ b.parsed
  THEN [parsed |-> TRUE,
        newer |-> isNewerThan3(a, b), equal |-> isEqualTo3(a, b),
        older |-> isOlderThan3(a, b),
        newerBack |-> isNewerThan3(b, a), olderBack |-> isOlderThan3(b, a)]
  ELSE NoVersion

\* The version numbers and extra texts of the strings compared.
MaxVersionPart == 2
VersionParts == (0..MaxVersionPart) \cup {10}
VersionExtras == {Null, <<"r", "c">>, <<"-", "b">>}
VersionInputs ==
  [major : VersionParts, minor : VersionParts, patch : VersionParts,
   extra : VersionExtras]

\* Two version strings are parsed and compared.
VersionInit ==
  /\ InitSession
  /\ dec = NewDecoder(<<>>)
  /\ \E a, b \in VersionInputs : inp = [pending |-> TRUE, a |-> a, b |-> b]

CompareVersions ==
  /\ inp.pending
  /\ LET a == VersionToString(inp.a)
         b == VersionToString(inp.b)
     IN inp' = [pending |-> FALSE, a |-> inp.a, b |-> inp.b,
                withExtra |-> Compare(parseVersion(a), parseVersion(b)),
                threePart |-> Compare3(parseVersion3(a), parseVersion3(b))]
  /\ UNCHANGED <<sessionVars, dec>>

VersionNext == CompareVersions
VersionSpec == VersionInit /\ [][VersionNext]_vars

\* The program with its drive search: the device's storage is mounted, is
\* not, or the drive list cannot be read; the device answers the identity
\* query; the commands of the checks after the drive search are left out.
DriveNext ==
  \/ AttemptConnection
  \/ PortsListed(<<>>)
  \/ PortsListed(<<VeetA>>)
  \/ \E c \in Conns : PortOpens(c, FALSE)
  \/ \E c \in Conns : PlainFrameArrives(c)
  \/ \E c \in Conns : PortLost(c)
  \/ \E t \in Txs : Timeout(t)
  \/ \E outcome \in DriveOutcomes : DrivesListed(outcome)
  \/ \E throws \in BOOLEAN : PostDriveFindReturns(throws)
  \/ DriveRetryFires
  \/ \E outcome \in DriveOutcomes : IntervalDrivesListed(outcome)
  \/ \E throws \in BOOLEAN : IntervalPostDriveFindReturns(throws)
  \/ PostConnectionFrom("checks")
DriveSpec == Init /\ [][DriveNext]_vars

\* The program and a device that can be lost once and is otherwise well: the
\* first transport may be lost at any time; the port list is empty or holds
\* the device; a transport that is opened opens and takes the identity query,
\* and the device answers every command in time with a frame valid for it,
\* except that commands on the lost transport time out.
RecoveryNext ==
  \/ AttemptConnection
  \/ PortsListed(<<>>)
  \/ PortsListed(<<VeetA>>)
  \/ \E c \in Conns : PortOpens(c, FALSE)
  \/ \E c \in Conns : PlainFrameArrives(c)
  \/ PortLost(1)
  \/ \E t \in Txs : tx[t].conn = 1 /\ Timeout(t)
  \/ AttemptConnectionStartsPolls(CONFIG)
  \/ AttemptConnectionCompletes
  \/ \E h \in Helpers : PollTimerFires(h)

\* The retry interval keeps firing, the device is listed again and again,
\* and what the program and the device are about to do, they do.
RecoveryFairness ==
  /\ WF_vars(AttemptConnection)
  /\ SF_vars(PortsListed(<<VeetA>>))
  /\ WF_vars(\E c \in Conns : PortOpens(c, FALSE))
  /\ WF_vars(\E c \in Conns : PlainFrameArrives(c))
  /\ WF_vars(AttemptConnectionStartsPolls(CONFIG))
  /\ WF_vars(AttemptConnectionCompletes)
RecoverySpec == Init /\ [][RecoveryNext]_vars /\ RecoveryFairness

\* The battery poller of one session, for every GB response: a device that
\* stays attached, answers the handshake and the clock poll, and answers GB
\* with any of BatteryReplies or not at all.
BatteryNext ==
  \/ AttemptConnection
  \/ PortsListed(<<VeetA>>)
  \/ \E c \in Conns : PortOpened(c)
  \/ \E c \in Conns : PlainFrameArrives(c)
  \/ \E c \in Conns : BatteryFrameArrives(c)
  \/ \E t \in Txs : tx[t].cmd = "GB" /\ Timeout(t)
  \/ AttemptConnectionStartsPolls(CONFIG)
  \/ AttemptConnectionCompletes
BatterySpec == Init /\ [][BatteryNext]_vars

\* The device times a GT response may report, in seconds: around the host's
\* time and the 5 s tolerance on either side of it.
ClockTimes ==
  {0, HostEpoch - 6, HostEpoch - 5, HostEpoch - 4, HostEpoch, HostEpoch + 4,
   HostEpoch + 5, HostEpoch + 6, HostEpoch + 11}

\* a GT response: 'Time(s): NNNN'
ClockText(n) == TimePrefix \o ToDigits(n)

\* GT responses that carry no time
ClockGarbage ==
  { TimePrefix, TimePrefix \o <<"x">>, <<"T", "i", "m", "e">>, ErrPrefix }

ClockReplies == {ClockText(n) : n \in ClockTimes} \cup ClockGarbage

\* the device answers a GT command
ClockFrameArrives(c) ==
  /\ wire[c] # <<>>
  /\ tx[Head(wire[c])].cmd = "GT"
  /\ \E f \in ClockReplies : FrameFromDevice(c, f \o <<"\r", "\n">>)

\* The clock poller of one session, for every GT response: a device that
\* stays attached, answers the handshake and the battery poll, answers GT
\* with any of ClockReplies or not at all, and answers ST or not.
ClockNext ==
  \/ AttemptConnection
  \/ PortsListed(<<VeetA>>)
  \/ \E c \in Conns : PortOpened(c)
  \/ \E c \in Conns : PlainFrameArrives(c)
  \/ \E c \in Conns : ClockFrameArrives(c)
  \/ \E t \in Txs : tx[t].cmd \in {"GT", "ST"} /\ Timeout(t)
  \/ AttemptConnectionStartsPolls(CONFIG)
  \/ AttemptConnectionCompletes
ClockSpec == Init /\ [][ClockNext]_vars

\* ------------------------------------------- the checks after connecting
DEFAULT_RETRY_COUNT == 3

\* checkDeviceSide: what it stores in deviceSide for runCommand's result
checkDeviceSide(deviceSideCmdResp) ==
  IF deviceSideCmdResp = Null THEN Null
  ELSE LET deviceSideArr == Split(deviceSideCmdResp, ",")
       IN IF Len(deviceSideArr) # 3 THEN Null
          ELSE IF deviceSideArr[3] \in {<<"L">>, <<"R">>} THEN deviceSideArr[3]
          ELSE Null

\* the callback checkSerialNumber hands to retryWrapper: what it stores in
\* serialNumber and what it returns, for runCommand's result
checkSerialNumberOnce(serialNumberResp) ==
  IF serialNumberResp = Null
  THEN [ok |-> FALSE, serialNumber |-> Null]
  ELSE LET splt == Split(serialNumberResp, ",")
       IN IF Len(splt) # 3 THEN [ok |-> FALSE, serialNumber |-> Null]
          ELSE IF Trim(splt[3]) # <<>>
          THEN [ok |-> TRUE, serialNumber |-> Trim(splt[3])]
          ELSE [ok |-> FALSE, serialNumber |-> Null]

\* One call of retryWrapper or of checkDeviceSide: fn is the function called
\* ("func": retryWrapper with any callback; "checkSerialNumber";
\* "checkDeviceSide"), pc where the call stands ("func": the callback is
\* running, "sleeping": the delay is running, "returned"), calls the number
\* of invocations of the callback, running the number of them that have not
\* returned, results what they returned, resp what runCommand returned last, serialNumber and deviceSide
\* the datastore values, failed that the failure was logged.
NewCall(fn, retryCount) ==
  [pending |-> TRUE, fn |-> fn, retryCount |-> retryCount,
   retriesLeft |-> retryCount, pc |-> "none", calls |-> 0, running |-> 0,
   results |-> <<>>, resp |-> Null, serialNumber |-> Null, deviceSide |-> Null,
   failed |-> FALSE]

\* a wrapper whose loop runs while retriesLeft >= 0
MutRetryOnceMore(w) ==
  IF w.retriesLeft >= 0
  THEN [w EXCEPT !.retriesLeft = @ - 1, !.pc = "func", !.calls = @ + 1,
                 !.running = @ + 1]
  ELSE [w EXCEPT !.pc = "returned", !.failed = TRUE]

\* retryWrapper at the head of its while loop
RetryLoop(w) ==
  IF w.retriesLeft > 0
  THEN [w EXCEPT !.retriesLeft = @ - 1, !.pc = "func", !.calls = @ + 1,
                 !.running = @ + 1]
  ELSE [w EXCEPT !.pc = "returned", !.failed = TRUE]

\* retryWrapper resumed with the callback's result
RetryResumed(w, result) ==
  [w EXCEPT !.running = @ - 1,
            !.results = Append(@, result),
            !.pc = IF result THEN "returned" ELSE "sleeping"]

\* The responses to GS and GM: records of three fields, records with an
\* empty or a missing field, nothing, and error reports.
ErrResponses ==
  { ErrPrefix,
    ErrPrefix \o <<" ", "C", "o", "m", "m", "a", "n", "d", " ",
                   "f", "a", "i", "l", "e", "d">> }
SerialReplies ==
  { <<"7", ",", "S", "N", ",", "A", "1">>, <<"7", ",", "S", "N", ",", " ">>,
    <<"7", ",", "S", "N">>, <<>> } \cup ErrResponses
SideReplies ==
  { <<"7", ",", "M", ",", "L">>, <<"7", ",", "M", ",", "R">>,
    <<"7", ",", "M", ",", "X">>, <<"7", ",", "M">>, <<>> } \cup ErrResponses

\* The retry counts retryWrapper is called with.
MaxRetryCount == 5
RetryCounts == (0 - 1)..MaxRetryCount

\* retryWrapper(func, retryCount, delay) or checkSerialNumber is called
RetryWrapperCalled ==
  /\ inp.pending
  /\ inp.fn \in {"func", "checkSerialNumber"}
  /\ inp' = RetryLoop([inp EXCEPT !.pending = FALSE])
  /\ UNCHANGED <<sessionVars, dec>>

\* checkSerialNumber's callback returns, runCommand having returned resp
SerialNumberRead(resp) ==
  \E r \in {checkSerialNumberOnce(resp)} :
    inp' = RetryResumed([inp EXCEPT !.resp = resp,
                                    !.serialNumber = r.serialNumber],
                        r.ok)

\* the callback returns: any boolean, or what checkSerialNumber's callback
\* makes of runCommand's result (null included)
FuncReturns ==
  /\ ~inp.pending
  /\ inp.pc = "func"
  /\ \/ /\ inp.fn = "func"
        /\ \E result \in BOOLEAN : inp' = RetryResumed(inp, result)
     \/ /\ inp.fn = "checkSerialNumber"
        /\ \/ SerialNumberRead(Null)
           \/ \E resp \in SerialReplies : SerialNumberRead(resp)
  /\ UNCHANGED <<sessionVars, dec>>

\* the delay between two tries is over
RetryDelayElapses ==
  /\ ~inp.pending
  /\ inp.pc = "sleeping"
  /\ inp' = RetryLoop(inp)
  /\ UNCHANGED <<sessionVars, dec>>

\* checkDeviceSide has run, runCommand having returned resp
DeviceSideRead(resp) ==
  inp' = [inp EXCEPT !.pending = FALSE, !.pc = "returned", !.calls = @ + 1,
                     !.resp = resp, !.deviceSide = checkDeviceSide(resp)]

\* checkDeviceSide runs, with runCommand's result (null included)
CheckDeviceSideRuns ==
  /\ inp.pending
  /\ inp.fn = "checkDeviceSide"
  /\ \/ DeviceSideRead(Null)
     \/ \E resp \in SideReplies : DeviceSideRead(resp)
  /\ UNCHANGED <<sessionVars, dec>>

\* retryWrapper with any callback and any count, checkSerialNumber and
\* checkDeviceSide, the last two with a datastore that is empty or holds the
\* values of an earlier session
ChecksInit ==
  /\ InitSession
  /\ dec = NewDecoder(<<>>)
  /\ \/ \E n \in RetryCounts : inp = NewCall("func", n)
     \/ inp = NewCall("checkSerialNumber", DEFAULT_RETRY_COUNT)
     \/ inp = [NewCall("checkSerialNumber", DEFAULT_RETRY_COUNT)
                 EXCEPT !.serialNumber = <<"B", "2">>]
     \/ inp = NewCall("checkDeviceSide", 0)
     \/ inp = [NewCall("checkDeviceSide", 0) EXCEPT !.deviceSide = <<"R">>]
ChecksNext ==
  \/ RetryWrapperCalled
  \/ FuncReturns
  \/ RetryDelayElapses
  \/ CheckDeviceSideRuns
ChecksSpec == ChecksInit /\ [][ChecksNext]_vars

\* The same where the call is made, the callback returns and the delay ends.
ChecksFairness ==
  /\ WF_vars(RetryWrapperCalled)
  /\ WF_vars(FuncReturns)
  /\ WF_vars(RetryDelayElapses)
  /\ WF_vars(CheckDeviceSideRuns)
ChecksLiveSpec == ChecksSpec /\ ChecksFairness

\* the device answers a poller's command with an error report
ErrFrameArrives(c) ==
  /\ wire[c] # <<>>
  /\ tx[Head(wire[c])].by \in Helpers
  /\ \E f \in ErrResponses : FrameFromDevice(c, f \o <<"\r", "\n">>)

\* One session whose device answers the pollers' GB, GT and ST with their
\* plain responses or with error reports, next to a call of checkSerialNumber
\* or checkDeviceSide whose GS and GM get any response.
ErrReplyInit == ChecksInit /\ inp.fn # "func"
ErrReplyNext ==
  \/ AttemptConnection
  \/ PortsListed(<<VeetA>>)
  \/ \E c \in Conns : PortOpened(c)
  \/ \E c \in Conns : PlainFrameArrives(c)
  \/ \E c \in Conns : ErrFrameArrives(c)
  \/ AttemptConnectionStartsPolls(CONFIG)
  \/ AttemptConnectionCompletes
  \/ ChecksNext
ErrReplySpec == ErrReplyInit /\ [][ErrReplyNext]_vars

\* ---------------------------------------------------------- the serial log
MAX_LINE_LENGTH == 500

\* an append that counts the whole line in the marker
MutMarkerCountsLine(serialLog, logLine) ==
  Append(serialLog,
         IF Len(logLine) > MAX_LINE_LENGTH
         THEN Slice(logLine, 0, MAX_LINE_LENGTH)
                \o <<"[", ".", ".", ".", "+">> \o ToDigits(Len(logLine))
                \o <<" ", "c", "h", "a", "r", "s", "]">>
         ELSE logLine)

\* SerialConnection.appendSerialLogLine: the serialLog it stores
appendSerialLogLine(serialLog, logLine) ==
  Append(serialLog,
         IF Len(logLine) > MAX_LINE_LENGTH
         THEN Slice(logLine, 0, MAX_LINE_LENGTH)
                \o <<"[", ".", ".", ".", "+">>
                \o ToDigits(Len(logLine) - MAX_LINE_LENGTH)
                \o <<" ", "c", "h", "a", "r", "s", "]">>
         ELSE logLine)

\* The lines logged: of the lengths around the cap, made of the characters
\* 0..9 in turn, starting with the character first.
LineLengths ==
  {0, 1, MAX_LINE_LENGTH - 1, MAX_LINE_LENGTH, MAX_LINE_LENGTH + 1,
   MAX_LINE_LENGTH + 10, MAX_LINE_LENGTH + MAX_LINE_LENGTH + MAX_LINE_LENGTH}
LogLine(n, first) == [i \in 1..n |-> Digits[((i + first) % Len(Digits)) + 1]]

\* The number of lines appended to one log.
MaxLogLines == 2

\* an empty serialLog
LogInit ==
  /\ InitSession
  /\ dec = NewDecoder(<<>>)
  /\ inp = [pending |-> TRUE, fn |-> "appendSerialLogLine", serialLog |-> <<>>,
            logLine |-> <<>>]

\* appendSerialLogLine(logLine) is called
AppendSerialLogLine ==
  /\ inp.pending
  /\ \E n \in LineLengths, first \in {0, 1} :
       \E logLine \in {LogLine(n, first)} :
         \E log \in {appendSerialLogLine(inp.serialLog, logLine)} :
           inp' = [inp EXCEPT !.serialLog = log, !.logLine = logLine,
                              !.pending = Len(log) < MaxLogLines]
  /\ UNCHANGED <<sessionVars, dec>>

LogNext == AppendSerialLogLine
LogSpec == LogInit /\ [][LogNext]_vars

\* ================================================================ claims
OnConn(c) == {t \in Txs : tx[t].pc # "none" /\ tx[t].conn = c}
Awaiting(c) == {t \in OnConn(c) : tx[t].pc = "awaiting"}
Terminal == {PORT_NOT_OPEN, VALID_RESPONSE, RESPONSE_TIMED_OUT, UNEXPECTED_ERROR}

\* C1: on every connection at most one transaction holds the queue ticket,
\* the transactions that have passed their wait and not yet ended are exactly
\* the ticket holders, and so at most one command is awaiting its frame.
C1_OneTicketHolder ==
  \A c \in Conns :
    /\ Cardinality(queue[c].running) <= 1
    /\ Awaiting(c) = queue[c].running
    /\ Cardinality(Awaiting(c)) <= 1

\* C1 witness: a command awaits its frame while two more callers wait behind it
C1_Witness ==
  \E c \in Conns : Awaiting(c) # {} /\ Len(queue[c].waiting) >= 2

\* C2: a transaction that has returned has one of the four terminal outcomes
\* and released its ticket exactly once; no transaction releases before it has
\* returned, none releases twice, and a returned transaction holds no ticket.
C2_ReleasedExactlyOnce ==
  \A t \in Txs :
    /\ tx[t].releases <= 1
    /\ tx[t].pc = "done" => /\ tx[t].releases = 1
                            /\ tx[t].code \in Terminal
                            /\ t \notin queue[tx[t].conn].running
    /\ tx[t].pc # "done" => tx[t].releases = 0 /\ tx[t].code = UNKNOWN

\* C2 witness: all four outcomes have occurred, each with its ticket released
C2_Witness ==
  \A code \in Terminal :
    \E t \in Txs : tx[t].pc = "done" /\ tx[t].code = code /\ tx[t].releases = 1

\* the frame delivered to transaction t's race came in reply to its own command
OwnFrame(t) ==
  /\ Len(tx[t].rx) = 1
  /\ tx[t].rx[1].for = t
  /\ tx[t].rx[1].frame \in DeviceReplies(tx[t].cmd)
  /\ tx[t].value = Trim(tx[t].rx[1].frame)

\* C3: no transaction stays pending for ever (again and again every
\* transaction submitted so far has returned), and one whose command was
\* written and to which no frame was delivered returns RESPONSE_TIMED_OUT with
\* its ticket released, however many commands the device leaves unanswered.
C3_TimeoutFreesChannel ==
  /\ []<>(\A t \in Txs : tx[t].pc \notin {"queued", "awaiting"})
  /\ [](\A t \in Txs :
          (tx[t].pc = "done" /\ tx[t].writes = 1 /\ tx[t].rx = <<>>)
            => (tx[t].code = RESPONSE_TIMED_OUT /\ tx[t].releases = 1))

\* C3 witness: three commands in a row were written to an open session of a
\* device that answered none of them, and each timed out
C3_Witness ==
  \E c \in Conns :
    /\ mgr.connection_ = c
    /\ Len(wire[c]) = 3
    /\ \A i \in 1..3 : /\ ~tx[wire[c][i]].hs
                        /\ tx[wire[c][i]].code = RESPONSE_TIMED_OUT

\* C4: transactions of a connection are served in submission order, one at a
\* time (a transaction has passed its wait only when every earlier one has
\* returned), and while no command of the connection has timed out every
\* VALID_RESPONSE is the reply to the caller's own command.
C4_InOrderOneToOne ==
  \A c \in Conns :
    /\ \A t, u \in OnConn(c) :
         (t < u /\ tx[u].pc # "queued") => tx[t].pc = "done"
    /\ (\A t \in OnConn(c) : tx[t].code # RESPONSE_TIMED_OUT)
         => \A t \in OnConn(c) : tx[t].code = VALID_RESPONSE => OwnFrame(t)

\* C4 witness: of three commands submitted together the first two got their
\* own replies, in order, and the third is in flight
C4_Witness ==
  \E c \in Conns : \E t, u, v \in OnConn(c) :
    /\ t < u /\ u < v
    /\ ~tx[t].hs
    /\ tx[t].code = VALID_RESPONSE /\ OwnFrame(t)
    /\ tx[u].code = VALID_RESPONSE /\ OwnFrame(u)
    /\ tx[v].pc = "awaiting"

\* C5 (as claimed): every VALID_RESPONSE carries the frame sent in reply to
\* the caller's own command.
C5_NoStaleFrame ==
  \A t \in Txs : tx[t].code = VALID_RESPONSE => OwnFrame(t)

\* C6: a transaction that has returned RESPONSE_TIMED_OUT keeps that outcome
\* and an empty value in every later step, also when a frame reaches its
\* listener afterwards.
C6_TimedOutStays ==
  [][\A t \in Txs :
       tx[t].code = RESPONSE_TIMED_OUT
         => (tx'[t].code = RESPONSE_TIMED_OUT /\ tx'[t].value = <<>>
             /\ tx'[t].rx = <<>>)]_vars

\* C6 witness: a frame has reached the listener of a timed-out transaction
C6_Witness ==
  \E t \in Txs : tx[t].code = RESPONSE_TIMED_OUT /\ tx[t].late

\* the identity query of connection c
Handshake(c) == {t \in OnConn(c) : tx[t].hs}

\* f, after leading whitespace, begins with 'Build:'
BeginsWithBuild(f) ==
  \E i \in 1..Len(f) :
    /\ \A j \in 1..(i - 1) : f[j] \in Whitespace
    /\ Len(f) >= i + 5
    /\ f[i] = "B" /\ f[i + 1] = "u" /\ f[i + 2] = "i"
    /\ f[i + 3] = "l" /\ f[i + 4] = "d" /\ f[i + 5] = ":"

\* C7: a connect that has returned reports success exactly when its identity
\* query returned VALID_RESPONSE for a frame that, after trimming, begins with
\* 'Build:'; a timeout, an empty response and another prefix give failure.
C7_HandshakeIffBuild ==
  \A c \in Conns :
    conn[c].ready # "pending" =>
      (conn[c].ready = "true" <=>
         \E t \in Handshake(c) :
           /\ tx[t].code = VALID_RESPONSE
           /\ Len(tx[t].rx) = 1
           /\ BeginsWithBuild(tx[t].rx[1].frame))

\* C7 witness: one connect failed on a well-formed response with another
\* prefix, and a later one succeeded
C7_Witness ==
  \E c, d \in Conns :
    /\ conn[c].ready = "false"
    /\ \E t \in Handshake(c) : tx[t].code = VALID_RESPONSE /\ tx[t].value # <<>>
    /\ conn[d].ready = "true"

\* C8: after a failed connect the transport is not open: it failed to open,
\* or it is closed, or it is closing because disconnect called close() on it;
\* no frame listener and no decoder are attached, and SerialManager holds no
\* session for it and listens to none of its events.
C8_NoHalfOpenTransport ==
  \A c \in Conns :
    conn[c].ready = "false" =>
      /\ conn[c].port \in {"failed", "closing", "closed"}
      /\ conn[c].port = "closing" => conn[c].closeCalled
      /\ conn[c].listeners = {}
      /\ ~conn[c].parser
      /\ mgr.connection_ # c
      /\ ~conn[c].mgrHooked /\ ~conn[c].closeHooked

\* C8 witness: a connect failed after its transport had been opened and its
\* identity query had timed out, and close() was called
C8_Witness ==
  \E c \in Conns :
    /\ conn[c].ready = "false"
    /\ conn[c].closeCalled
    /\ \E t \in Handshake(c) : tx[t].code = RESPONSE_TIMED_OUT

\* C9 (as claimed): per session SerialManager emits 'disconnect' at most once
\* and MainWindow.disconnected runs at most once, also when an explicit
\* SerialConnection.disconnect call and the transport's close event both occur.
C9_NotifiedOnce ==
  \A c \in Conns : hist.emits[c] <= 1 /\ hist.mwRuns[c] <= 1

SomePortCloses ==
  \E c \in Conns : conn[c].port \in {"open", "closing"} /\ conn'[c].port = "closed"

ProtocolOutcome(t) ==
  /\ tx[t].pc = "awaiting" /\ tx'[t].pc = "done"
  /\ ~tx[t].hs
  /\ tx'[t].code \in {RESPONSE_TIMED_OUT, VALID_RESPONSE}

\* C11: a step in which a command of an established session times out or
\* gets a response (whatever its text, '#Err' included) leaves the
\* transport's state, SerialManager's session and the notification counts as
\* they were, and the next waiting command of that connection, if any, gets
\* its turn in the same step: it is written to the transport when it is open.
C11_ProtocolFailureKeepsSession ==
  [][\A t \in Txs :
       ProtocolOutcome(t) =>
         LET c == tx[t].conn
         IN /\ conn'[c].port = conn[c].port
            /\ mgr' = mgr
            /\ mw'.isConnected_ = mw.isConnected_
            /\ hist'.emits = hist.emits /\ hist'.mwRuns = hist.mwRuns
            /\ queue[c].waiting # <<>> =>
                  LET u == Head(queue[c].waiting)
                  IN /\ tx'[u].pc \in {"awaiting", "done"}
                     /\ (tx'[u].pc = "awaiting" <=> tx'[u].writes = 1)
                     /\ (conn[c].port = "open" /\ tx'[u].pc = "done")
                          => tx'[u].code = UNEXPECTED_ERROR
    ]_vars

\* C11 witness: on the active session one command got an '#Err' response, the
\* next one timed out, and a third has been written and awaits its frame,
\* with the port open and no notification emitted
C11_Witness ==
  \E c \in Conns : \E t, u, v \in OnConn(c) :
    /\ mgr.connection_ = c /\ conn[c].port = "open" /\ hist.emits[c] = 0
    /\ mw.isConnected_
    /\ t < u /\ u < v /\ ~tx[t].hs
    /\ tx[t].code = VALID_RESPONSE /\ StartsWith(tx[t].value, ErrPrefix)
    /\ tx[u].code = RESPONSE_TIMED_OUT
    /\ tx[v].pc = "awaiting" /\ tx[v].writes = 1

\* C12: a runCommand call that found no connection returned null; the call
\* behind a returned transaction has returned, null for PORT_NOT_OPEN,
\* RESPONSE_TIMED_OUT and UNEXPECTED_ERROR and, for VALID_RESPONSE, the
\* received frame without its surrounding whitespace; no call is left
\* unsettled by a transaction that has returned.
C12_NullUnlessValid ==
  /\ hist.refused \in {"none", Null}
  /\ \A t \in Txs :
       (tx[t].pc = "done" /\ ~tx[t].hs) =>
         /\ tx[t].ret # "pending"
         /\ tx[t].code \in {PORT_NOT_OPEN, RESPONSE_TIMED_OUT, UNEXPECTED_ERROR}
              => tx[t].ret = Null
         /\ tx[t].code = VALID_RESPONSE
              => /\ Len(tx[t].rx) = 1
                 /\ tx[t].ret = Trim(tx[t].rx[1].frame)
                 /\ tx[t].ret # Null
         /\ tx[t].ret # Null => tx[t].code = VALID_RESPONSE

\* C12 witness: a call was refused for want of a connection, one command
\* returned a frame shorter than received (whitespace trimmed), one timed out
\* and one found the port closed
C12_Witness ==
  /\ hist.refused = Null
  /\ \E t, u, v \in Txs :
       /\ ~tx[t].hs /\ ~tx[u].hs /\ ~tx[v].hs
       /\ tx[t].code = VALID_RESPONSE /\ tx[t].ret # tx[t].rx[1].frame
       /\ tx[u].code = RESPONSE_TIMED_OUT /\ tx[u].ret = Null
       /\ tx[v].code = PORT_NOT_OPEN /\ tx[v].ret = Null

\* t is among the elements of sequence w
InSeq(t, w) == \E i \in 1..Len(w) : w[i] = t

\* C13: a transaction that gets its turn while its connection's transport is
\* absent or not open returns PORT_NOT_OPEN in that same step, and only then;
\* it has written nothing, armed no timer and no frame listener, and has
\* released its ticket.
C13_PortNotOpenImmediately ==
  [][\A t \in Txs :
       (tx[t].pc = "queued" /\ tx'[t].pc # "queued") =>
         LET c == tx[t].conn
         IN /\ tx'[t].code = PORT_NOT_OPEN <=> ~PortIsOpen(conn'[c])
            /\ tx'[t].code = PORT_NOT_OPEN =>
                 /\ tx'[t].pc = "done"
                 /\ tx'[t].writes = 0
                 /\ ~tx'[t].timer
                 /\ t \notin conn'[c].listeners
                 /\ \A d \in Conns : ~InSeq(t, wire'[d])
                 /\ tx'[t].releases = 1
                 /\ t \notin queue'[c].running
    ]_vars

\* C13 witness: a command that was waiting when its session was torn down has
\* returned PORT_NOT_OPEN
C13_Witness ==
  \E t \in Txs :
    /\ tx[t].code = PORT_NOT_OPEN /\ ~tx[t].hs
    /\ ~conn[tx[t].conn].portRef
    /\ tx[t].releases = 1 /\ tx[t].writes = 0

\* the positions of the terminators among the bytes p
TermPos(p) == {i \in 1..Len(p) : p[i] = END_OF_TRANSMISSION_DELIMITER}

\* the position of the k-th terminator of p
NthTerm(p, k) ==
  CHOOSE i \in TermPos(p) : Cardinality({j \in TermPos(p) : j <= i}) = k

\* the bytes of p between its (k-1)-th and its k-th terminator
Between(p, k) ==
  SubSeq(p, IF k = 1 THEN 1 ELSE NthTerm(p, k - 1) + 1, NthTerm(p, k) - 1)

\* the bytes of p after its last terminator
AfterLast(p) ==
  IF TermPos(p) = {} THEN p
  ELSE SubSeq(p, NthTerm(p, Cardinality(TermPos(p))) + 1, Len(p))

\* C14: whatever the chunking, after any number of chunks the frames emitted
\* are, in order, exactly the byte strings between the terminators received
\* so far (one frame per terminator), no frame holds a terminator byte, and
\* the bytes after the last terminator are retained and not emitted.
C14_FramesBetweenTerminators ==
  LET p == dec.consumed
  IN /\ Len(dec.frames) = Cardinality(TermPos(p))
     /\ \A k \in 1..Len(dec.frames) :
          /\ dec.frames[k] = Between(p, k)
          /\ \A i \in 1..Len(dec.frames[k]) :
               dec.frames[k][i] # END_OF_TRANSMISSION_DELIMITER
     /\ dec.buffer = AfterLast(p)

\* C14 witness: a stream with two adjacent terminators and a partial last
\* frame has been received: two frames, the second empty, and one byte retained
C14_Witness ==
  /\ dec.stream = <<>>
  /\ dec.consumed = <<65, END_OF_TRANSMISSION_DELIMITER,
                      END_OF_TRANSMISSION_DELIMITER, 66>>
  /\ dec.frames = <<<<65>>, <<>>>>
  /\ dec.buffer = <<66>>

\* the ports that occur in the lists
AllPorts == UNION {{l[i] : i \in 1..Len(l)} : l \in PortLists}

\* the paths of the ports that report vendor id 04d8 (in either case) and
\* product id 0001
VeetPaths ==
  {p.path : p \in {q \in AllPorts : /\ q.vendorId \in {"04d8", "04D8"}
                                    /\ q.productId = "0001"}}

\* C15: every transport findVeet has created is on the path of a listed port
\* with vendor id 04d8 and product id 0001, the one being opened is the
\* candidate of the list at hand, and every command was sent on such a
\* transport; ports with another or no identity are never opened.
C15_OnlyVeetPortsOpened ==
  /\ \A c \in Conns :
       conn[c].port # "none" =>
         /\ conn[c].path \in VeetPaths
         /\ conn[c].port = "opening" =>
              /\ fv.c = c /\ fv.idx \in 1..Len(fv.list)
              /\ fv.list[fv.idx].path = conn[c].path
  /\ \A t \in Txs :
       tx[t].pc # "none" => conn[tx[t].conn].path \in VeetPaths

\* C15 witness: in a list with foreign ports before and between them, both
\* VEET ports were tried: the first failed its handshake, the second is open
\* and has been sent the identity query
C15_Witness ==
  /\ fv.list = <<Other, VeetA, WrongProduct, VeetB>>
  /\ fv.idx = 4
  /\ \E c, d \in Conns :
       /\ conn[c].path = "COM1" /\ conn[c].ready = "false"
       /\ conn[d].path = "COM2" /\ conn[d].port = "open"
       /\ \E t \in Handshake(d) : tx[t].writes = 1

\* C16: a findVeet invoked while a session is active returns CONNECTED in the
\* same step and changes nothing: no port list is requested, no connection
\* object is created, no transport is opened and no command sent, and the
\* session and the connected port stay as they were.
C16_ShortCircuitWhenConnected ==
  [][hist'.direct # hist.direct =>
       /\ hist'.direct = CONNECTED
       /\ fv' = fv /\ fv'.pc # "listing"
       /\ conn' = conn /\ nextConn' = nextConn
       /\ tx' = tx /\ wire' = wire /\ queue' = queue
       /\ mgr' = mgr /\ ds' = ds /\ mw' = mw
       /\ hist'.emits = hist.emits
    ]_vars

\* C16 witness: findVeet was called during a session, which is still active
\* on its port and has a command in flight
C16_Witness ==
  /\ hist.direct = CONNECTED
  /\ \E c \in Conns :
       /\ mgr.connection_ = c /\ mgr.connectedPort_ = conn[c].path
       /\ conn[c].port = "open"
       /\ \E t \in Awaiting(c) : ~tx[t].hs

\* the port reports vendor id 04d8 (in either case) and product id 0001
HasVeetIdentity(q) == q.vendorId \in {"04d8", "04D8"} /\ q.productId = "0001"

\* the positions of list, among those in S, that hold a VEET port
VeetAt(list, S) == {j \in S \cap (1..Len(list)) : HasVeetIdentity(list[j])}

\* C17: a findVeet invoked without a session tries the matching candidates in
\* list order, one at a time.  It returns CONNECTED exactly in the step in
\* which a candidate's handshake succeeds; the session is then that candidate,
\* on its path, and no further connection is created.  It returns NONE_FOUND
\* exactly when the list holds no matching port at all or the last matching
\* candidate has failed, and SerialManager then holds no session.
C17_FirstSuccessOrNoneFound ==
  [][(mgr.connection_ = NoConn /\ fv.pc # "idle") =>
       /\ (fv.pc = "listing" /\ fv'.pc = "connecting") =>
            /\ VeetAt(fv'.list, 1..fv'.idx) = {fv'.idx}
            /\ conn'[fv'.c].path = fv'.list[fv'.idx].path
            /\ nextConn' = nextConn + 1
       /\ (fv.pc = "listing" /\ fv'.pc = "idle") =>
            /\ fv'.status = NONE_FOUND
            /\ mgr'.connection_ = NoConn /\ nextConn' = nextConn
       /\ (fv.pc = "connecting" /\ fv'.pc = "connecting" /\ fv' # fv) =>
            /\ conn'[fv.c].ready = "false"
            /\ fv'.list = fv.list /\ fv'.idx > fv.idx
            /\ VeetAt(fv.list, (fv.idx + 1)..fv'.idx) = {fv'.idx}
            /\ conn'[fv'.c].path = fv.list[fv'.idx].path
            /\ mgr'.connection_ = NoConn /\ nextConn' = nextConn + 1
       /\ (fv.pc = "connecting" /\ fv'.pc = "idle") =>
            /\ fv'.status \in {CONNECTED, NONE_FOUND}
            /\ fv'.status = CONNECTED <=> conn'[fv.c].ready = "true"
            /\ fv'.status = CONNECTED =>
                 /\ mgr'.connection_ = fv.c
                 /\ mgr'.connectedPort_ = fv.list[fv.idx].path
                 /\ conn'[fv.c].port = "open"
            /\ fv'.status = NONE_FOUND =>
                 /\ conn'[fv.c].ready = "false"
                 /\ VeetAt(fv.list, (fv.idx + 1)..Len(fv.list)) = {}
                 /\ mgr'.connection_ = NoConn
            /\ nextConn' = nextConn
            /\ \A d \in Conns : conn'[d].port # "opening"
    ]_vars

\* C17 witness: of two matching candidates the first failed its handshake
\* and the second succeeded; findVeet returned CONNECTED with the session on
\* the second one's path
C17_Witness ==
  /\ fv.pc = "idle" /\ fv.status = CONNECTED
  /\ \E c, d \in Conns :
       /\ c < d
       /\ conn[c].path = "COM1" /\ conn[c].ready = "false"
       /\ conn[d].path = "COM2" /\ conn[d].ready = "true"
       /\ mgr = [connection_ |-> d, connectedPort_ |-> "COM2"]

\* the connections whose connect() has not returned yet
Connecting == {c \in Conns : conn[c].port # "none" /\ conn[c].ready = "pending"}

\* C18: while an attemptConnection is in flight no step begins another
\* attempt or another findVeet, whoever calls; findVeet and the steps after
\* it run only with the flag set; and at most one connect (handshake) is in
\* progress at any time.
C18_OneAttemptAtATime ==
  [][/\ mw.connectionAttemptInFlight_ =>
          /\ ~(fv.pc # "listing" /\ fv'.pc = "listing")
          /\ ~(mw.pc # "findVeet" /\ mw'.pc = "findVeet")
          /\ fv.pc = "connecting" =>
                (fv'.pc = "connecting" => fv'.list = fv.list /\ fv'.idx >= fv.idx)
     /\ (fv'.pc # "idle" \/ mw'.pc # "idle") => mw'.connectionAttemptInFlight_
     /\ Cardinality({c \in Conns : conn'[c].port # "none"
                                    /\ conn'[c].ready = "pending"}) <= 1
     /\ \A c \in Conns :
          (conn'[c].port # "none" /\ conn'[c].ready = "pending") =>
            (fv'.pc = "connecting" /\ fv'.c = c)
    ]_vars

\* C18 witness: the interval has called attemptConnection during an attempt,
\* and right now an attempt is in flight with a handshake awaiting its frame
\* while the interval is armed
C18_Witness ==
  /\ hist.skipped
  /\ mw.connectionAttemptInFlight_ /\ mw.connectionRetry_
  /\ \E c \in Connecting : \E t \in Awaiting(c) : tx[t].hs

\* the transports that are open and past their handshake
ActiveSessions == {c \in Conns : conn[c].port = "open" /\ conn[c].ready = "true"}

\* C19: at most one transport is open and past its handshake, it is the
\* connection SerialManager holds, and the connection SerialManager holds is
\* one whose handshake succeeded.
C19_AtMostOneSession ==
  /\ Cardinality(ActiveSessions) <= 1
  /\ \A c \in ActiveSessions : mgr.connection_ = c
  /\ mgr.connection_ # NoConn =>
       /\ mgr.connection_ \in Conns
       /\ conn[mgr.connection_].ready = "true"
       /\ mgr.connectedPort_ = conn[mgr.connection_].path

\* C19 witness: after a session was lost a new one was established: the old
\* transport is closed and the new one is the only active session
C19_Witness ==
  \E c, d \in Conns :
    /\ c # d
    /\ conn[c].ready = "true" /\ conn[c].port = "closed"
    /\ hist.emits[c] = 1
    /\ ActiveSessions = {d} /\ mgr.connection_ = d

\* MainWindow.disconnected runs in this step
DisconnectedRuns == hist'.mwRuns # hist.mwRuns

Stopped(h) ==
  /\ poll.helpers[h].kind # "none"
  /\ h \notin {poll.batteryPoller_, poll.clockPoller_} \/ ~mw.isConnected_

\* C21: a PollingHelper that has been stopped does not invoke its callback
\* again and is not restarted, and in a step taken while the window is
\* disconnected no poller (battery, clock, sensor loop) starts a command or
\* gets one written to a transport.
C21_NoPollingWhileDisconnected ==
  [][/\ \A h \in Helpers :
          Stopped(h) => /\ poll'.helpers[h].calls = poll.helpers[h].calls
                        /\ ~poll'.helpers[h].isPolling_
                        /\ poll'.helpers[h].timeoutHandler_ = 0
     /\ ~mw.isConnected_ =>
          \A t \in Txs :
            tx'[t].by # NoPoller =>
              /\ tx'[t].writes = tx[t].writes
              /\ tx[t].pc = "none" => tx'[t].pc = "none"]_vars

\* C21 witness: disconnected has run while both pollers had a command
\* pending; the battery poll then timed out and the clock poll found the port
\* closed, both callbacks resolved and neither helper armed a timer, and the
\* sensor loop is running
C21_Witness ==
  /\ ~mw.isConnected_
  /\ poll.sensor.pc = "sleeping"
  /\ \E h, g \in Helpers, t, u \in Txs :
       /\ poll.helpers[h].kind = "battery" /\ poll.helpers[g].kind = "clock"
       /\ tx[t].by = h /\ tx[t].code = RESPONSE_TIMED_OUT
       /\ tx[u].by = g /\ tx[u].code = PORT_NOT_OPEN /\ tx[u].writes = 0
       /\ \A x \in {h, g} :
            /\ ~poll.helpers[x].isPolling_
            /\ poll.helpers[x].outstanding = 0
            /\ poll.helpers[x].calls = 1
            /\ poll.helpers[x].returned > 0
            /\ poll.helpers[x].timeoutHandler_ = 0

\* the GB responses of an accepted shape that carry the voltage mv
BatteryShapes(mv) == {BatteryText(mv), BatteryRecord(7, mv)}

\* pollBattery of some helper has resumed in this step with a response of an
\* accepted shape carrying mv
BatteryRead(mv) ==
  \E t \in Txs :
    /\ tx[t].pc # "done" /\ tx'[t].pc = "done"
    /\ tx'[t].cmd = "GB" /\ tx'[t].by \in Helpers
    /\ Truthy(tx'[t].ret) /\ tx'[t].ret \in BatteryShapes(mv)

\* the number x is n / d
IsFraction(x, n, d) == x.kind = "number" /\ x.num * d = n * x.den

\* (mv - 3600) / 500 clamped to 0..1 and raised to 0.01, in 500ths
BatteryPct500(mv) ==
  LET ramp == mv - 3600
      clamped == IF ramp < 0 THEN 0 ELSE IF ramp > 500 THEN 500 ELSE ramp
  IN IF clamped < 5 THEN 5 ELSE clamped

\* C22: when pollBattery resumes with a GB response of either accepted shape
\* carrying mv with 100 <= mv <= 6000, it stores batteryMV = mv and
\* batteryPct = max(0.01, clamp((mv - 3600) / 500, 0, 1)), a value within
\* [0.01, 1].
C22_BatteryFraction ==
  [][\A mv \in BatteryReadings :
       (mv >= 100 /\ mv <= 6000 /\ BatteryRead(mv)) =>
          /\ ds'.batteryMV = Num(mv)
          /\ IsFraction(ds'.batteryPct, BatteryPct500(mv), 500)
          /\ ds'.batteryPct.num * 100 >= ds'.batteryPct.den
          /\ ds'.batteryPct.num <= ds'.batteryPct.den]_vars

\* C22 witness: the response 'Battery: 4050mV' has been read and the
\* datastore holds 4050 mV and the fraction 0.9
C22_Witness ==
  /\ \E t \in Txs : /\ tx[t].by \in Helpers /\ tx[t].pc = "done"
                    /\ Truthy(tx[t].ret) /\ tx[t].ret = BatteryText(4050)
  /\ ds.batteryMV = Num(4050)
  /\ IsFraction(ds.batteryPct, 9, 10)

\* C22 counterpart of the witness for the second shape and the floor: the
\* response '7,BAT,3600' gives the fraction 0.01
C22_RecordShapeRead ==
  /\ \E t \in Txs : /\ tx[t].by \in Helpers /\ tx[t].pc = "done"
                    /\ Truthy(tx[t].ret) /\ tx[t].ret = BatteryRecord(7, 3600)
  /\ ds.batteryMV = Num(3600)
  /\ IsFraction(ds.batteryPct, 1, 100)

\* a response the sensor loop must not use: null, empty, or an error report
Unusable(str) == ~Truthy(str) \/ StartsWith(str, ErrPrefix)

\* in this step the sensor loop gets the response str to its poll and goes on
\* past its `if`: its runCommand returns (and no TOF timer is awaited), or the
\* TOF timer fires after runCommand has returned
SensorLoopGetsUnusable ==
  \/ /\ poll.sensor.pc = "joining" /\ poll'.sensor.pc # "joining"
     /\ Unusable(poll.sensor.str)
  \/ /\ poll.sensor.pc = "awaiting" /\ poll'.sensor.pc # "joining"
     /\ \E t \in Txs : /\ tx[t].by = SensorLoop
                       /\ tx[t].pc # "done" /\ tx'[t].pc = "done"
                       /\ Unusable(tx'[t].ret)

\* two datastore values, each a string or null, are the same
SameText(a, b) == (a = Null /\ b = Null) \/ (a # Null /\ b # Null /\ a = b)

\* C23: when the response to a sensor poll is null, empty or begins with
\* '#Err', the sensor loop leaves imuData, phoData, tofData and alsData
\* unchanged and passes nothing to the stream recorder.
C23_UnusableSampleDropped ==
  [][SensorLoopGetsUnusable =>
       /\ \A tab \in SensorTabs :
            SameText(ds'[SensorField(tab)], ds[SensorField(tab)])
       /\ poll'.recorded = poll.recorded]_vars

\* C23 witness: the IMU tab shows the sample of a first poll, and a second
\* poll was answered '#Err Command failed'; one sample is stored and recorded
C23_Witness ==
  /\ ds.imuData # Null /\ ds.imuData = <<"4", "2">>
  /\ poll.recorded = << <<"4", "2">> >>
  /\ poll.sensor.pc = "sleeping"
  /\ \E t, u \in Txs :
       /\ t < u
       /\ tx[t].by = SensorLoop /\ tx[t].cmd = IMU_POLL_COMMAND
       /\ tx[u].by = SensorLoop /\ tx[u].cmd = IMU_POLL_COMMAND
       /\ tx[u].pc = "done" /\ Truthy(tx[u].ret)
       /\ StartsWith(tx[u].ret, ErrPrefix)

\* the numbers of version a are above those of b, major first
NumbersAbove(a, b) ==
  \/ a.major > b.major
  \/ a.major = b.major /\ a.minor > b.minor
  \/ a.major = b.major /\ a.minor = b.minor /\ a.patch > b.patch
SameNumbers(a, b) ==
  a.major = b.major /\ a.minor = b.minor /\ a.patch = b.patch

\* the comparisons r of versions a and b are those of a consistent order by
\* major, minor, patch and the presence of extra text
ConsistentOrder(r, a, b) ==
  r.parsed =>
    /\ (r.newer /\ ~r.equal /\ ~r.older)
         \/ (~r.newer /\ r.equal /\ ~r.older)
         \/ (~r.newer /\ ~r.equal /\ r.older)
    /\ r.newer <=> r.olderBack
    /\ r.older <=> r.newerBack
    /\ r.newer <=> \/ NumbersAbove(a, b)
                   \/ SameNumbers(a, b) /\ a.extra = Null /\ b.extra # Null
    /\ r.equal <=> /\ SameNumbers(a, b)
                   /\ (a.extra = Null) <=> (b.extra = Null)

\* C24: for any two parsed versions a and b exactly one of a.isNewerThan(b),
\* a.isEqualTo(b), a.isOlderThan(b) holds, and a.isNewerThan(b) iff
\* b.isOlderThan(a); versions compare by major, minor, patch, a version
\* without extra text is newer than one with extra text and the same numbers,
\* and two versions with extra text and the same numbers are equal.  Stated
\* of both Version classes.
C24_VersionOrder ==
  ~inp.pending /\ inp # NoInput =>
    /\ ConsistentOrder(inp.withExtra, inp.a, inp.b)
    /\ ConsistentOrder(inp.threePart, inp.a, inp.b)

\* C24, of the Version class with extra text alone
C24_VersionOrderWithExtra ==
  ~inp.pending /\ inp # NoInput =>
    ConsistentOrder(inp.withExtra, inp.a, inp.b)

\* C24: 1.0.10 has been compared with 1.0.2 by the three-number class, which
\* says both newer and older
C24_BothNewerAndOlder ==
  /\ ~inp.pending /\ inp # NoInput
  /\ inp.a = [major |-> 1, minor |-> 0, patch |-> 10, extra |-> Null]
  /\ inp.b = [major |-> 1, minor |-> 0, patch |-> 2, extra |-> Null]
  /\ inp.threePart.parsed
  /\ inp.threePart.newer /\ inp.threePart.older
  /\ inp.withExtra.newer /\ ~inp.withExtra.older

\* C25: once a transaction has resolved, the loser of its race is cleaned up:
\* its frame listener is attached to no decoder and its timer is not pending;
\* so no decoder ever has more than one frame listener.
C25_RaceCleanedUp ==
  /\ \A t \in Txs :
       tx[t].pc = "done" =>
         /\ ~tx[t].timer
         /\ \A c \in Conns : t \notin conn[c].listeners
  /\ \A c \in Conns : Cardinality(conn[c].listeners) <= 1

\* C25: a command has timed out and its frame listener is still attached
\* while a later command waits with a listener of its own
C25_TwoListeners ==
  \E c \in Conns, t, u \in Txs :
    /\ t # u /\ {t, u} \subseteq conn[c].listeners
    /\ tx[t].pc = "done" /\ tx[t].code = RESPONSE_TIMED_OUT
    /\ tx[u].pc = "awaiting"

\* C25: a command has been answered and its timer is still pending
C25_TimerLeftArmed ==
  \E t \in Txs :
    tx[t].pc = "done" /\ tx[t].code = VALID_RESPONSE /\ tx[t].timer

\* SerialConnection.disconnect has run on the session of transaction t, which
\* is pending
PendingTornDown(t) ==
  /\ tx[t].pc \in {"queued", "awaiting"}
  /\ conn[tx[t].conn].port \in {"closing", "closed"}
  /\ ~conn[tx[t].conn].portRef

\* C26: a transaction pending on a session that has been torn down returns:
\* the one in flight with RESPONSE_TIMED_OUT, one that was waiting with
\* PORT_NOT_OPEN as soon as it gets its turn; and nothing more is written to
\* the transport of that session.
C26_NoCallerHangs ==
  /\ \A t \in Txs : PendingTornDown(t) ~> tx[t].pc = "done"
  /\ [][\A t \in Txs :
          PendingTornDown(t) =>
            /\ tx'[t].writes = tx[t].writes
            /\ Len(wire'[tx[t].conn]) <= Len(wire[tx[t].conn])
            /\ (tx[t].pc = "awaiting" /\ tx'[t].pc # "awaiting") =>
                 (tx'[t].pc = "done" /\ tx'[t].code = RESPONSE_TIMED_OUT)
            /\ (tx[t].pc = "queued" /\ tx'[t].pc # "queued") =>
                 (tx'[t].pc = "done" /\ tx'[t].code = PORT_NOT_OPEN)]_vars

\* C26 witness: a session was torn down with one command in flight and
\* another waiting; the first has timed out, the second has returned
\* PORT_NOT_OPEN without a write, and no transaction of the session is pending
C26_Witness ==
  \E c \in Conns, t, u \in Txs :
    /\ conn[c].port = "closed" /\ ~conn[c].portRef
    /\ t < u /\ ~tx[t].hs /\ tx[t].conn = c /\ tx[u].conn = c
    /\ tx[t].pc = "done" /\ tx[t].code = RESPONSE_TIMED_OUT /\ tx[t].writes = 1
    /\ tx[u].pc = "done" /\ tx[u].code = PORT_NOT_OPEN /\ tx[u].writes = 0
    /\ \A v \in Txs : tx[v].conn = c => tx[v].pc = "done"

\* the identity query of connection c has been answered 'Build:...'
HandshakeSucceeded(c) ==
  \E h \in Handshake(c) :
    /\ tx[h].pc = "done" /\ tx[h].code = VALID_RESPONSE
    /\ tx[h].rx # <<>> /\ BeginsWithBuild(tx[h].rx[1].frame)

\* C27: a command other than the identity query 'VR' of connect is submitted
\* only to a transport whose identity query has been answered 'Build:...';
\* pollers and the sensor loop exist only after such a handshake; a
\* runCommand made while the window is not connected returns null, and in a
\* step taken while the window is not connected no command other than the
\* identity query is submitted or written.
C27_HandshakeFirst ==
  /\ [](\A t \in Txs :
          /\ tx[t].hs => tx[t].cmd = VR
          /\ (tx[t].pc # "none" /\ ~tx[t].hs) => HandshakeSucceeded(tx[t].conn))
  /\ []((poll.sensorPollThreadRunning
           \/ \E h \in Helpers : poll.helpers[h].kind # "none")
          => \E c \in Conns : HandshakeSucceeded(c))
  /\ [](hist.refused \in {"none", Null})
  /\ [][~mw.isConnected_ =>
          \A t \in Txs :
            ~tx'[t].hs => /\ tx'[t].writes = tx[t].writes
                          /\ tx[t].pc = "none" => tx'[t].pc = "none"]_vars

\* C27 witness: a session whose handshake succeeded carried a one-shot
\* command and a poller's command; it is over, the window is not connected
\* and a runCommand made since returned null
C27_Witness ==
  /\ ~mw.isConnected_
  /\ hist.refused = Null
  /\ \E c \in Conns, u, v \in Txs :
       /\ HandshakeSucceeded(c) /\ conn[c].port = "closed"
       /\ tx[u].conn = c /\ tx[u].by \in Helpers /\ tx[u].writes = 1
       /\ tx[v].conn = c /\ tx[v].by = NoPoller /\ ~tx[v].hs
       /\ tx[v].writes = 1

\* the commands of helper h that have not returned
CommandsOutstanding(h) ==
  {t \in Txs : tx[t].by = h /\ tx[t].pc \in {"queued", "awaiting"}}

\* C29: a PollingHelper has at most one invocation of its callback and at
\* most one command outstanding; its timer is armed only while no invocation
\* is outstanding, with the delay the last invocation returned; and after the
\* constructor's call the callback is invoked only by that timer.
C29_SelfRescheduling ==
  /\ [](\A h \in Helpers :
          /\ poll.helpers[h].outstanding \in {0, 1}
          /\ Cardinality(CommandsOutstanding(h)) <= poll.helpers[h].outstanding
          /\ poll.helpers[h].timeoutHandler_ # 0 =>
               /\ poll.helpers[h].outstanding = 0
               /\ poll.helpers[h].timeoutHandler_ = poll.helpers[h].returned)
  /\ [][\A h \in Helpers :
          poll'.helpers[h].calls # poll.helpers[h].calls =>
            /\ poll'.helpers[h].calls = poll.helpers[h].calls + 1
            /\ \/ poll.helpers[h].kind = "none"
               \/ /\ poll.helpers[h].timeoutHandler_ # 0
                  /\ poll.helpers[h].outstanding = 0]_vars

\* C29 witness: the first GB of a battery poller timed out, the poller
\* returned the short delay, its timer fired and its second GB is the only
\* command it has outstanding
C29_Witness ==
  \E h \in Helpers, t, u \in Txs :
    /\ poll.helpers[h].kind = "battery"
    /\ poll.helpers[h].calls = 2 /\ poll.helpers[h].outstanding = 1
    /\ poll.helpers[h].timeoutHandler_ = 0
    /\ poll.helpers[h].returned = BATTERY_FAST_POLL_PERIOD
    /\ tx[t].by = h /\ tx[t].code = RESPONSE_TIMED_OUT
    /\ tx[u].by = h /\ tx[u].pc = "awaiting"
    /\ CommandsOutstanding(h) = {u}

\* the GB response str carries a reading within 100..6000 mV
ValidReading(str) ==
  /\ Truthy(str)
  /\ \E mv \in BatteryReadings :
       mv >= 100 /\ mv <= 6000 /\ str \in BatteryShapes(mv)

\* C30: when pollBattery resumes with a GB response that is null, an error
\* report, unparseable or outside 100..6000 mV, batteryPct and batteryMV are
\* unchanged and the poller returns the short interval; with a valid reading
\* it returns the long interval.
C30_UnusableReadingIgnored ==
  [][\A t \in Txs :
       (/\ tx[t].pc # "done" /\ tx'[t].pc = "done"
        /\ tx'[t].cmd = "GB" /\ tx'[t].by \in Helpers) =>
          IF ValidReading(tx'[t].ret)
          THEN poll'.helpers[tx'[t].by].returned = BATTERY_SLOW_POLL_PERIOD
          ELSE /\ ds'.batteryPct = ds.batteryPct
               /\ ds'.batteryMV = ds.batteryMV
               /\ poll'.helpers[tx'[t].by].returned = BATTERY_FAST_POLL_PERIOD
    ]_vars

\* C30: the response 'Battery: mV' has been read: the datastore holds NaN
\* for the voltage and for the fraction, and the poller returned the long
\* interval
C30_NotANumberStored ==
  /\ ds.batteryMV = NaN /\ ds.batteryPct = NaN
  /\ \E t \in Txs :
       /\ tx[t].by \in Helpers /\ tx[t].pc = "done" /\ Truthy(tx[t].ret)
       /\ tx[t].ret = BatteryPrefix \o <<"m", "V">>
       /\ poll.helpers[tx[t].by].returned = BATTERY_SLOW_POLL_PERIOD

\* the window is not connected after a disconnect notification, and the
\* bounds leave room for `room` more transactions on one more connection
DisconnectedWithRoom(room) ==
  /\ ~mw.isConnected_
  /\ \E c \in Conns : hist.mwRuns[c] > 0
  /\ nextConn <= MaxConn
  /\ nextTx + room <= MaxTx + 1

\* both pollers and the sensor loop are running
PollersRunning ==
  /\ poll.sensorPollThreadRunning
  /\ \A h \in {poll.batteryPoller_, poll.clockPoller_} :
       h # NoHelper /\ poll.helpers[h].isPolling_

ClockRead(t) ==
  /\ tx[t].pc # "done" /\ tx'[t].pc = "done"
  /\ tx'[t].cmd = "GT" /\ tx'[t].by \in Helpers

\* the GT of t returned a response that reports the device time n
ReportsTime(t, n) == Truthy(tx'[t].ret) /\ tx'[t].ret = ClockText(n)

\* the device time n differs from the host's by more than 5 s
OutOfSync(n) == n - HostEpoch > 5 \/ HostEpoch - n > 5

\* helper h issues the set-clock command in this step
SetClockIssued(h) ==
  \E u \in Txs : /\ tx[u].pc = "none" /\ tx'[u].pc # "none"
                 /\ tx'[u].cmd = "ST" /\ tx'[u].by = h

\* the callback of helper h resolves in this step with delay
ResolvesWith(h, delay) ==
  /\ poll'.helpers[h].outstanding = 0
  /\ poll'.helpers[h].returned = delay

\* C31: when pollClock resumes with the result of GT, it issues ST iff the
\* response reports a device time more than 5 s from the host's; when it
\* issues none it returns the long interval (60 s) only if the response
\* reports a time within 5 s of the host's and the short one (3 s) otherwise,
\* and after the ST it returns the short interval.
C31_ClockSync ==
  [][/\ \A t \in Txs : ClockRead(t) =>
          /\ SetClockIssued(tx'[t].by)
               <=> \E n \in ClockTimes : ReportsTime(t, n) /\ OutOfSync(n)
          /\ ~SetClockIssued(tx'[t].by) =>
               IF \E n \in ClockTimes : ReportsTime(t, n) /\ ~OutOfSync(n)
               THEN ResolvesWith(tx'[t].by, CLOCK_SLOW_POLL_PERIOD)
               ELSE ResolvesWith(tx'[t].by, CLOCK_FAST_POLL_PERIOD)
     /\ \A u \in Txs :
          (tx[u].pc # "done" /\ tx'[u].pc = "done"
             /\ tx'[u].cmd = "ST" /\ tx'[u].by \in Helpers)
            => ResolvesWith(tx'[u].by, CLOCK_FAST_POLL_PERIOD)]_vars

\* C31: a GT answered '#Err' has been read, no ST was issued, and pollClock
\* returned the long interval
C31_ErrGivesLongInterval ==
  \E t \in Txs :
    /\ tx[t].cmd = "GT" /\ tx[t].pc = "done" /\ tx[t].by \in Helpers
    /\ Truthy(tx[t].ret) /\ tx[t].ret = ErrPrefix
    /\ poll.helpers[tx[t].by].outstanding = 0
    /\ poll.helpers[tx[t].by].returned = CLOCK_SLOW_POLL_PERIOD
    /\ \A u \in Txs : tx[u].cmd # "ST"

\* C31 restricted to GT responses that report a time, and to GT calls that
\* returned nothing
C31_ClockSyncOnTimes ==
  [][/\ \A t \in Txs :
          (ClockRead(t) /\ (~Truthy(tx'[t].ret)
                              \/ \E n \in ClockTimes : ReportsTime(t, n))) =>
          /\ SetClockIssued(tx'[t].by)
               <=> \E n \in ClockTimes : ReportsTime(t, n) /\ OutOfSync(n)
          /\ ~SetClockIssued(tx'[t].by) =>
               IF \E n \in ClockTimes : ReportsTime(t, n) /\ ~OutOfSync(n)
               THEN ResolvesWith(tx'[t].by, CLOCK_SLOW_POLL_PERIOD)
               ELSE ResolvesWith(tx'[t].by, CLOCK_FAST_POLL_PERIOD)
     /\ \A u \in Txs :
          (tx[u].pc # "done" /\ tx'[u].pc = "done"
             /\ tx'[u].cmd = "ST" /\ tx'[u].by \in Helpers)
            => ResolvesWith(tx'[u].by, CLOCK_FAST_POLL_PERIOD)]_vars

\* a GT reporting a time 6 s behind has been followed by an ST that returned
C31_Resynced ==
  \E t, u \in Txs :
    /\ tx[t].cmd = "GT" /\ tx[t].pc = "done" /\ tx[t].by \in Helpers
    /\ Truthy(tx[t].ret) /\ tx[t].ret = ClockText(HostEpoch - 6)
    /\ tx[u].cmd = "ST" /\ tx[u].pc = "done" /\ tx[u].by = tx[t].by
    /\ poll.helpers[tx[t].by].returned = CLOCK_FAST_POLL_PERIOD

\* a poller's command returns an error report in this step
ErrRead(t) ==
  /\ tx[t].pc # "done" /\ tx'[t].pc = "done"
  /\ tx'[t].by \in Helpers
  /\ Truthy(tx'[t].ret) /\ StartsWith(tx'[t].ret, ErrPrefix)

\* checkSerialNumber's callback or checkDeviceSide has read an error report
\* in this step
ErrChecked ==
  /\ inp'.calls > 0
  /\ Len(inp'.results) > Len(inp.results) \/ (inp.pending /\ ~inp'.pending)
  /\ Truthy(inp'.resp) /\ StartsWith(inp'.resp, ErrPrefix)

\* C32: a response beginning with '#Err' is no usable data for any caller:
\* when GB, GT or ST of a poller returns one, the datastore is left as it
\* was, the command completed as a valid response and the session stays;
\* when GS or GM returns one, serialNumber and deviceSide are not set from it.
C32_ErrIsNoData ==
  [][/\ \A t \in Txs : ErrRead(t) =>
          /\ ds' = ds
          /\ tx'[t].code = VALID_RESPONSE
          /\ mw'.isConnected_ = mw.isConnected_
          /\ mgr' = mgr
          /\ conn'[tx[t].conn].port = conn[tx[t].conn].port
     /\ ErrChecked =>
          /\ inp.fn = "checkSerialNumber" => inp'.serialNumber = Null
          /\ inp.fn = "checkDeviceSide" => inp'.deviceSide = Null]_vars

\* C32: a GT answered '#Err' has been read and timeOnVeet holds NaN
C32_ErrStoredAsTime ==
  /\ ds.timeOnVeet = NaN
  /\ \E t \in Txs :
       /\ tx[t].cmd = "GT" /\ tx[t].pc = "done" /\ tx[t].by \in Helpers
       /\ Truthy(tx[t].ret) /\ tx[t].ret = ErrPrefix

\* C32 without the datastore's timeOnVeet
C32_ErrIsNoDataButTime ==
  [][/\ \A t \in Txs : ErrRead(t) =>
          /\ [ds' EXCEPT !.timeOnVeet = NaN] = [ds EXCEPT !.timeOnVeet = NaN]
          /\ tx'[t].code = VALID_RESPONSE
          /\ mw'.isConnected_ = mw.isConnected_
          /\ mgr' = mgr
          /\ conn'[tx[t].conn].port = conn[tx[t].conn].port
     /\ ErrChecked =>
          /\ inp.fn = "checkSerialNumber" => inp'.serialNumber = Null
          /\ inp.fn = "checkDeviceSide" => inp'.deviceSide = Null]_vars

\* an error report has been read by the battery poller and by both checks
C32_ErrReadByOthers ==
  /\ Truthy(inp.resp) /\ StartsWith(inp.resp, ErrPrefix)
  /\ \E t \in Txs :
       /\ tx[t].cmd = "GB" /\ tx[t].pc = "done" /\ tx[t].by \in Helpers
       /\ Truthy(tx[t].ret) /\ StartsWith(tx[t].ret, ErrPrefix)

\* the poll command and the datastore key of each sensor tab
PollCommandOf(tab) ==
  IF tab = IMU THEN "S0" ELSE IF tab = PHO THEN "S1"
  ELSE IF tab = TOF THEN "S2" ELSE "S3"
DataKeyOf(tab) ==
  IF tab = IMU THEN "imuData" ELSE IF tab = PHO THEN "phoData"
  ELSE IF tab = TOF THEN "tofData" ELSE "alsData"
SensorKeys == {"imuData", "phoData", "tofData", "alsData"}

\* the commands the sensor loop issues in this step
SensorCommandsIssued ==
  {u \in Txs : tx[u].pc = "none" /\ tx'[u].pc # "none" /\ tx'[u].by = SensorLoop}

\* the sensor loop makes a pass with currentTab_ = tab in this step: its
\* first, from startPolls, or a later one after its sleep
SensorIteration(tab) ==
  \/ SensorWakes(tab)
  \/ ~poll.sensorPollThreadRunning /\ AttemptConnectionStartsPolls(tab)

Tries(n) == IF n > 0 THEN n ELSE 0

\* C34: retryWrapper invokes its callback at most retryCount times and never
\* for a count of 0 or less, one invocation at a time, none after the first
\* that returned true; checkSerialNumber makes at most 3 GS calls; and when
\* every invocation returns, retryWrapper returns.
C34_BoundedRetries ==
  /\ [](inp.fn \in {"func", "checkSerialNumber"} =>
          /\ inp.calls <= Tries(inp.retryCount)
          /\ inp.running <= 1
          /\ inp.calls = Len(inp.results) + inp.running
          /\ \A i \in 1..Len(inp.results) :
               inp.results[i] => (i = Len(inp.results) /\ inp.pc = "returned")
          /\ inp.fn = "checkSerialNumber" => inp.calls <= 3)
  /\ <>(inp.pc = "returned")

\* C34 witness: a call with count 3 whose callback returned false, false and
\* true has returned after three invocations
C34_Witness ==
  /\ inp.fn = "func" /\ inp.retryCount = 3
  /\ inp.results = <<FALSE, FALSE, TRUE>>
  /\ inp.calls = 3 /\ inp.pc = "returned" /\ ~inp.failed

\* checkSerialNumber gave up after three GS calls that brought no serial
\* number
C34_ThreeSerialQueries ==
  /\ inp.fn = "checkSerialNumber"
  /\ inp.results = <<FALSE, FALSE, FALSE>>
  /\ inp.calls = 3 /\ inp.pc = "returned" /\ inp.failed
  /\ inp.serialNumber = Null

\* the text is the decimal numeral of n
IsNumeral(text, n) ==
  /\ text # <<>>
  /\ \A i \in 1..Len(text) : IsDigit(text[i])
  /\ Len(text) > 1 => text[1] # "0"
  /\ ParseDigits(text, 0) = n

\* entry is the first 500 characters of line followed by '[...+N chars]'
\* with N the number of characters left out
Truncated(entry, line) ==
  /\ Len(entry) > 500 + 12
  /\ SubSeq(entry, 1, 500) = SubSeq(line, 1, 500)
  /\ SubSeq(entry, 501, 505) = <<"[", ".", ".", ".", "+">>
  /\ SubSeq(entry, Len(entry) - 6, Len(entry))
       = <<" ", "c", "h", "a", "r", "s", "]">>
  /\ IsNumeral(SubSeq(entry, 506, Len(entry) - 7), Len(line) - 500)

\* C35: a call of appendSerialLogLine leaves the entries of serialLog as
\* they were and adds one entry at the end: the line itself if it has at
\* most 500 characters, else its first 500 characters and '[...+N chars]'
\* with N = length - 500.
C35_OneEntryAppended ==
  [][inp'.serialLog # inp.serialLog =>
       /\ Len(inp'.serialLog) = Len(inp.serialLog) + 1
       /\ SubSeq(inp'.serialLog, 1, Len(inp.serialLog)) = inp.serialLog
       /\ IF Len(inp'.logLine) <= 500
          THEN inp'.serialLog[Len(inp'.serialLog)] = inp'.logLine
          ELSE Truncated(inp'.serialLog[Len(inp'.serialLog)], inp'.logLine)]_vars

\* C35 witness: after a line of 500 characters, kept whole, a line of 510
\* characters has been logged as its first 500 and '[...+10 chars]'
C35_Witness ==
  /\ inp.fn = "appendSerialLogLine"
  /\ Len(inp.serialLog) = 2
  /\ inp.serialLog[1] = LogLine(500, 0)
  /\ Len(inp.logLine) = 510
  /\ inp.serialLog[2] = SubSeq(inp.logLine, 1, 500)
       \o <<"[", ".", ".", ".", "+", "1", "0", " ", "c", "h", "a", "r", "s", "]">>

\* transaction t holds the channel of its connection
HoldsChannel(t) ==
  tx[t].pc = "awaiting" /\ t \in queue[tx[t].conn].running

\* C36: commandInFlight is true only while a transaction holds the channel
\* whose slow-command timer has fired, so it is false when no transaction
\* holds the channel; and a slow-command timer is pending only for a
\* transaction that holds the channel, so it never fires after the
\* transaction has returned.
C36_InFlightWhileSlow ==
  /\ ds.commandInFlight => \E t \in Txs : HoldsChannel(t) /\ tx[t].tooLong
  /\ (\A t \in Txs : ~HoldsChannel(t)) => ~ds.commandInFlight
  /\ \A t \in Txs : tx[t].cmdTakingTooLong => HoldsChannel(t)

\* C36 witness: a command that showed as slow has returned, the observable is
\* false again, and the next command is pending with its timer
C36_Witness ==
  /\ ~ds.commandInFlight
  /\ \E t, u \in Txs :
       /\ tx[t].pc = "done" /\ tx[t].tooLong /\ ~tx[t].cmdTakingTooLong
       /\ tx[t].code = VALID_RESPONSE
       /\ HoldsChannel(u) /\ tx[u].cmdTakingTooLong

\* a command is showing as slow
C36_ShownAsSlow ==
  /\ ds.commandInFlight
  /\ \E t \in Txs : HoldsChannel(t) /\ tx[t].tooLong

\* C37: in every state, isConnected_ implies that SerialManager holds a
\* session; the datastore's connectionPort is set and equal to
\* SerialManager's connectedPort exactly when SerialManager holds a session;
\* without a session connectedPort is 'NONE' and connectionPort is null.
C37_ConnectionStateConsistent ==
  /\ mw.isConnected_ => mgr.connection_ # NoConn
  /\ mgr.connection_ # NoConn
       <=> (ds.connectionPort # Null /\ mgr.connectedPort_ = ds.connectionPort)
  /\ mgr.connection_ = NoConn
       => (mgr.connectedPort_ = "NONE" /\ ds.connectionPort = Null)

\* C37 witness: a second session is held on its port after the first one
\* was lost, and the window is connected
C37_Witness ==
  /\ mw.isConnected_
  /\ mgr.connection_ = 2
  /\ hist.emits[1] > 0
  /\ mgr.connectedPort_ = conn[2].path /\ ds.connectionPort = conn[2].path

\* the session was lost and no layer reports one
C37_AllDisconnected ==
  /\ hist.emits[1] > 0
  /\ ~mw.isConnected_ /\ mgr.connection_ = NoConn
  /\ mgr.connectedPort_ = "NONE" /\ ds.connectionPort = Null

\* the helpers of a kind that are live
LiveHelpers(kind) ==
  {h \in Helpers : poll.helpers[h].kind = kind /\ poll.helpers[h].isPolling_}

\* C38: at any time at most one battery helper and one clock helper is
\* live, and they are the window's current pollers, none while it is
\* disconnected; one sensor loop at most has been started and it has one
\* command pending at most; and a helper that is no longer live stays so,
\* arms no timer and invokes its callback no more.
C38_OnePollerEach ==
  /\ [](/\ Cardinality(LiveHelpers("battery")) <= 1
        /\ Cardinality(LiveHelpers("clock")) <= 1
        /\ LiveHelpers("battery") \subseteq {poll.batteryPoller_}
        /\ LiveHelpers("clock") \subseteq {poll.clockPoller_}
        /\ ~mw.isConnected_ =>
             LiveHelpers("battery") \cup LiveHelpers("clock") = {}
        /\ poll.sensorThreads <= 1
        /\ Cardinality({t \in Txs : /\ tx[t].by = SensorLoop
                                    /\ tx[t].pc \notin {"none", "done"}}) <= 1)
  /\ [][\A h \in Helpers :
          (poll.helpers[h].kind # "none" /\ ~poll.helpers[h].isPolling_) =>
             /\ ~poll'.helpers[h].isPolling_
             /\ poll'.helpers[h].timeoutHandler_ = 0
             /\ poll'.helpers[h].calls = poll.helpers[h].calls]_vars

\* C38 witness: startPolls has run for a second session: the first pair of
\* helpers is stopped, one of them with its command still pending, the
\* second pair is live, and there is one sensor loop
C38_Witness ==
  /\ mw.isConnected_ /\ mgr.connection_ = 2
  /\ poll.batteryPoller_ = 3 /\ poll.clockPoller_ = 4
  /\ poll.helpers[3].isPolling_ /\ poll.helpers[4].isPolling_
  /\ ~poll.helpers[1].isPolling_ /\ ~poll.helpers[2].isPolling_
  /\ poll.helpers[1].outstanding = 1
  /\ poll.sensorThreads = 1 /\ poll.sensorPollThreadRunning

\* C39: whenever no attemptConnection invocation is executing, also after
\* one whose port enumeration failed with an exception, the in-flight flag
\* connectionAttemptInFlight_ is false.
C39_GuardReleased == mw.pc = "idle" => ~mw.connectionAttemptInFlight_

\* the retry interval is armed, no attempt is executing, the window is not
\* connected, and the flag makes every later attemptConnection return at once
C39_DiscoveryBlocked ==
  /\ mw.pc = "idle" /\ fv.pc = "idle"
  /\ mw.connectionRetry_ /\ ~mw.isConnected_
  /\ mw.connectionAttemptInFlight_

\* once blocked, blocked for good
C39_BlockedForGood ==
  [][(mw.pc = "idle" /\ mw.connectionAttemptInFlight_) =>
       (mw'.pc = "idle" /\ mw'.connectionAttemptInFlight_ /\ ~mw'.isConnected_)]_vars

\* no findDrive call is executing
NoDriveSearch ==
  mw.pc # "post" /\ mw.intervalListing = 0 /\ mw.intervalPost = 0

\* C40: whenever the window is connected, no drive path is known and no
\* drive search call is executing, the drive retry interval is armed.
C40_DriveRetryArmed ==
  (mw.isConnected_ /\ ds.drivePath = Null /\ NoDriveSearch) =>
    mw.driveRetryArmed

\* connected without a drive path, nothing searching, and driveRetry_ holds
\* the handle of a cleared interval
C40_StaleHandle ==
  /\ mw.isConnected_ /\ ds.drivePath = Null /\ NoDriveSearch
  /\ mw.driveRetry_ /\ ~mw.driveRetryArmed
  /\ mw.pc = "idle" /\ ~mw.connectionRetry_

\* connected without a drive path, nothing searching and no interval: a
\* findDrive of the interval that found no drive has returned after another
\* findDrive found it and stopped the interval
C40_LateListResult ==
  /\ mw.isConnected_ /\ ds.drivePath = Null /\ NoDriveSearch
  /\ ~mw.driveRetry_ /\ ~mw.driveRetryArmed

\* a handle becomes stale only where attemptConnection returns after a
\* disconnect during its drive search
C40_StaleAfterInterruptedSearch ==
  [][(mw.driveRetry_ => mw.driveRetryArmed)
       /\ mw'.driveRetry_ /\ ~mw'.driveRetryArmed
     => mw.pc = "post" /\ mw'.pc = "idle" /\ ~mw.isConnected_]_vars

====
